---- MODULE Spec2Model ----
(***************************************************************************)
(* MechWolf FreeStep / TMC / Harvard pump drivers, the shared serial       *)
(* controller registry and the two-point calibration of the FreeStep       *)
(* syringe pumps.                                                          *)
(*                                                                         *)
(* Flow rates, frequencies and diameters are Python floats in the source;  *)
(* here they are exact rationals <<numerator, denominator>> in lowest      *)
(* terms with a positive denominator.                                      *)
(***************************************************************************)
EXTENDS Integers, Sequences, FiniteSets, TLC

VARIABLES
    \* ---- freestep_pump.py module globals and FreeStepPump fields
    port_users,          \* _port_users: port -> list of pump instances
    shared_controllers,  \* _shared_controllers: port -> controller
    open_ports,          \* controller -> SerialManager.open_ports (set of port names)
    nextCtl,             \* number of FreeStepController objects constructed so far
    controller,          \* pump -> self._controller (0: attribute not set yet)
    mcu_profile,         \* pump -> self._mcu_profile
    motor_profile,       \* pump -> self._motor_profile
    port_initialized,    \* pump -> self._port_initialized
    last_rate,           \* pump -> self._last_rate
    rate,                \* pump -> self.rate (mL/min)
    inside,              \* pump -> TRUE while the pump is inside its with-block
    motorStore,          \* motors.json: list of motor profiles
    mcuStore,            \* MCUs.json: list of MCU profiles
    \* ---- observation of the last handler that ran
    lastCall,            \* [op, pump, prev, result]; prev: self.rate before the call
    lastSent,            \* commands the last handler wrote, in order
    \* ---- tmc_stepper.py TMCPump and harvardpump.py HarvardSyringePump
    tmc_ser,             \* TMCPump._ser: "None", "open" or "closed"
    tmc_rate,            \* TMCPump.rate (mL/min)
    tmc_frequency,       \* TMCPump.frequency
    tmc_inside,          \* inside "with tmc:"
    hv_ser,              \* HarvardSyringePump._ser: "unset" or "open"
    hv_rate,             \* HarvardSyringePump.rate (mL/min)
    hv_inside,           \* inside "with harvard:"
    drv_prev,            \* driver -> rate of its previous _update (None: none yet)
    \* ---- calibration_3DSyringePumps_mLmin.py JupyterCalibrationTool
    w_first,             \* first trial widgets: [freq, duration, measurement]
    w_second,            \* second trial widgets: [freq, duration, measurement]
    w_named,             \* syringe brand and model inputs are both non-empty
    w_diameter,          \* syringe_diameter_input.value (mm)
    selected_motor,      \* self.selected_motor
    tool_port,           \* self.selected_port ("None" until connect_port succeeds)
    fitted,              \* calculate_calibration has stored a profile from the widgets
    cal_call,            \* the last tool or controller call: [op, ups, freq, result, ...]
    run_pc,              \* position of the protocol run on its single entry
    run_pump,            \* the pump the entry targets
    run_rate,            \* the entry's rate (mL/min)
    wire,                \* commands written during the run: [phase, cmd] in order
    loop_owner,          \* the _update coroutine the event loop is executing, or "None"
    pending,             \* per pump: the pieces of its command line still to be written
    link,                \* the pieces written to the shared port, in order
    proto,               \* self.protocol of ProtocolAlgorithm: the entries added so far
    build_call,          \* the create_protocol call: [op, configs, result]
    \* ---- one execution of a protocol over its components
    ex_state,            \* the run: "Idle", "Running", "Completed" or "Aborted"
    ex_abort,            \* the run-wide abort signal
    ex_task,             \* component -> position of its task
    ex_log,              \* component -> what happened on its connection, in order
    \* ---- one SerialManager and the reader threads it has started
    sm_open_ports,       \* SerialManager.open_ports: port name -> serial handle
    sm_is_open,          \* serial handle -> its is_open
    sm_readers,          \* the _read_responses threads started so far: [port, handle, pc]
    sm_call,             \* the last SerialManager call: [op, port, result]
    \* ---- components.py
    id_counter,          \* class -> its id_counter
    used_names,          \* Component.used_names
    components,          \* the components constructed so far: [cls, name]
    cmp_call,            \* the last constructor call: [op, cls, name, result]
    \* ---- the operating system's serial ports
    os_answers,          \* what serial.Serial(port) answers to the successive opens of
                         \* the last __enter__ (<<>>: it had no port to open)
    \* ---- components.py Tube
    tube_call,           \* the last Tube(...) call: [op, length, inner, outer, result, warned]
    \* ---- JupyterCalibrationTool: the MCU profiles it holds in memory
    associate_mcu_options,   \* associate_mcu_dropdown.options: the MCU profiles as loaded
    selected_mcu,            \* self.selected_mcu
    edit_motor_mcu_options,  \* edit_motor_mcu_dropdown.options
    current_motor_id,        \* self.current_motor_id
    assoc_call,              \* the last profile operation: [op, mcu, motor]
    \* ---- sensor.py Sensor and the update() generator of one sensor
    sensor_rate,             \* Sensor.rate in Hz
    sensor_pc,               \* where the update() generator is suspended
    sensor_readings,         \* readings the generator has yielded
    sensor_call              \* the last step of the generator or its driver

poolVars == <<port_users, shared_controllers, open_ports, nextCtl, controller,
              mcu_profile, motor_profile, port_initialized, last_rate, rate,
              inside, motorStore, mcuStore>>
obsVars == <<lastCall, lastSent>>
drvVars == <<tmc_ser, tmc_rate, tmc_frequency, tmc_inside, hv_ser, hv_rate, hv_inside,
             drv_prev>>
calVars == <<w_first, w_second, w_named, w_diameter, selected_motor, tool_port, fitted,
             cal_call>>
runVars == <<run_pc, run_pump, run_rate, wire>>
concVars == <<loop_owner, pending, link>>
execVars == <<ex_state, ex_abort, ex_task, ex_log>>
readerVars == <<sm_open_ports, sm_is_open, sm_readers, sm_call>>
namesVars == <<id_counter, used_names, components, cmp_call>>
acqVars == <<os_answers>>
tubeVars == <<tube_call>>
assocVars == <<associate_mcu_options, selected_mcu, edit_motor_mcu_options, current_motor_id,
               assoc_call>>
sensorVars == <<sensor_rate, sensor_pc, sensor_readings, sensor_call>>
lateVars == <<tubeVars, assocVars, sensorVars>>
extVars == <<proto, build_call, execVars, readerVars, namesVars, acqVars, lateVars>>
vars == <<poolVars, obsVars, drvVars, calVars, runVars, concVars, extVars>>

----------------------------------------------------------------------------
(* Rationals *)

Abs(x) == IF x < 0 THEN -x ELSE x

RECURSIVE Gcd(_, _)
Gcd(a, b) == IF b = 0 THEN a ELSE Gcd(b, a % b)

\* n/d in lowest terms, d # 0
Rat(n, d) ==
    LET g == Gcd(Abs(n), Abs(d))
        s == IF d < 0 THEN -1 ELSE 1
    IN  <<(s * n) \div g, (s * d) \div g>>

RZero == <<0, 1>>
\* sums and comparisons go through the least common denominator
RAdd(x, y) ==
    LET g == Gcd(x[2], y[2])
    IN  Rat(x[1] * (y[2] \div g) + y[1] * (x[2] \div g), (x[2] \div g) * y[2])
RSub(x, y) == RAdd(x, <<-y[1], y[2]>>)
RMul(x, y) ==
    LET a == Rat(x[1], y[2])
        b == Rat(y[1], x[2])
    IN  Rat(a[1] * b[1], a[2] * b[2])
RDiv(x, y) == RMul(x, Rat(y[2], y[1]))
RLt(x, y) ==
    LET g == Gcd(x[2], y[2])
    IN  x[1] * (y[2] \div g) < y[1] * (x[2] \div g)
RLe(x, y) == x = y \/ RLt(x, y)
RAbs(x) == <<Abs(x[1]), x[2]>>

----------------------------------------------------------------------------
(* Devices, ports and profiles *)

Ports == {"COM3", "COM4"}
Pumps == {"fp1", "fp2", "fp3"}

\* FreeStepPump(serial_port, mcu_id, motor_id, ...) as constructed by the user
serial_port(p) == IF p = "fp3" THEN "COM4" ELSE "COM3"
mcu_id(p) == "mcuA"
motor_id(p) == CASE p = "fp1" -> "m1" [] p = "fp2" -> "m2" [] OTHER -> "m3"

NoneProfile == [uniqueID |-> "None"]
Truthy(profile) == profile # NoneProfile

\* first element of a JSON list whose uniqueID is id, else None
RECURSIVE FindByID(_, _)
FindByID(list, id) ==
    IF list = <<>> THEN NoneProfile
    ELSE IF Head(list).uniqueID = id THEN Head(list)
    ELSE FindByID(Tail(list), id)

\* the list without the first occurrence of x (list.remove)
RECURSIVE Remove(_, _)
Remove(list, x) ==
    IF list = <<>> THEN <<>>
    ELSE IF Head(list) = x THEN Tail(list)
    ELSE <<Head(list)>> \o Remove(Tail(list), x)

Contains(list, x) == \E i \in 1..Len(list) : list[i] = x

----------------------------------------------------------------------------
(* Calibration arithmetic: calculate_calibration and convert_ups_to_freq *)

None == <<>>

HardwareCeilingHz == 1000
MinUPSFloor == <<1, 200000>>          \* 0.000005
SecondsPerMinute == 60

\* "ups": (measurement / duration) * 60
trial_ups(measurement, duration) ==
    RMul(RDiv(measurement, duration), <<SecondsPerMinute, 1>>)

ups_slope_of(t1, t2) ==
    RDiv(RSub(trial_ups(t2.measurement, t2.duration),
              trial_ups(t1.measurement, t1.duration)),
         RSub(t2.freq, t1.freq))

ups_intercept_of(t1, t2) ==
    RSub(trial_ups(t1.measurement, t1.duration), RMul(ups_slope_of(t1, t2), t1.freq))

max_ups_of(t1, t2) ==
    RAdd(ups_intercept_of(t1, t2), RMul(ups_slope_of(t1, t2), <<HardwareCeilingHz, 1>>))

min_ups_of_Unfloored(t1, t2) == ups_intercept_of(t1, t2)

min_ups_of(t1, t2) ==
    IF RLt(ups_intercept_of(t1, t2), MinUPSFloor) THEN MinUPSFloor
    ELSE ups_intercept_of(t1, t2)

\* the selected motor's dict after the field assignments of calculate_calibration
CalibratedProfile(mp, t1, t2, diameter) ==
    [mp EXCEPT !.UPSSlope = ups_slope_of(t1, t2),
               !.UPSIntercept = ups_intercept_of(t1, t2),
               !.maxUPS = max_ups_of(t1, t2),
               !.minUPS = min_ups_of(t1, t2),
               !.calibrated = TRUE,
               !.syringeInfo = <<diameter>>]

convert_ups_to_freq_NoIntercept(mp, ups) ==
    IF ~mp.calibrated THEN None
    ELSE IF RLe(mp.maxUPS, ups) THEN None
    ELSE IF RLe(ups, mp.minUPS) THEN None
    ELSE RDiv(ups, mp.UPSSlope)

\* CommandProcessor.convert_ups_to_freq; None is the value it returns on rejection
convert_ups_to_freq(mp, ups) ==
    IF ~mp.calibrated THEN None
    ELSE IF RLe(mp.maxUPS, ups) THEN None
    ELSE IF RLe(ups, mp.minUPS) THEN None
    ELSE RDiv(RSub(ups, mp.UPSIntercept), mp.UPSSlope)

\* add_motor's new profile: only uniqueID, name and calibrated are present; the
\* calibration fields are absent (None here) until calculate_calibration sets them
NewMotor(id) ==
    [uniqueID |-> id, calibrated |-> FALSE, UPSSlope |-> None, UPSIntercept |-> None,
     maxUPS |-> None, minUPS |-> None, syringeInfo |-> <<>>]

\* ProfileManager.update_motor: replace the entry with the same uniqueID, else append
RECURSIVE ReplaceByID(_, _)
ReplaceByID(list, rec) ==
    IF list = <<>> THEN <<>>
    ELSE IF Head(list).uniqueID = rec.uniqueID THEN <<rec>> \o Tail(list)
    ELSE <<Head(list)>> \o ReplaceByID(Tail(list), rec)

update_motor(list, rec) ==
    IF FindByID(list, rec.uniqueID) # NoneProfile THEN ReplaceByID(list, rec)
    ELSE Append(list, rec)

----------------------------------------------------------------------------
(* Wire commands and the FreeStepController used by FreeStepPump *)

\* one JSON line written to a port (port: the port it is written to)
StopCmd(port, step, dir) ==
    [port |-> port, type |-> "stop", stepPin |-> step, dirPin |-> dir]
BasicCmd(port, step, dir, freq, direction) ==
    [port |-> port, type |-> "basic", stepPin |-> step, dirPin |-> dir,
     freq |-> freq, direction |-> direction]

\* the motor's (uniqueID, step, dir) entry of an MCU profile, else None
motor_config(mcu, motor) == FindByID(mcu.motors, motor.uniqueID)

Pi == <<314159, 100000>>                \* 3.14159
DefaultReferenceDiameter == <<8, 1>>    \* command_data.get("referenceDiameter", 8.0)

circle_area(diameter) ==
    RMul(Pi, RMul(RDiv(diameter, <<2, 1>>), RDiv(diameter, <<2, 1>>)))

area_ratio_Linear(diameter, reference) ==
    IF RLt(RZero, circle_area(diameter)) THEN RDiv(reference, diameter) ELSE <<1, 1>>

\* area_ratio = reference_area / cross_sectional_area if cross_sectional_area > 0 else 1.0
area_ratio(diameter, reference) ==
    IF RLt(RZero, circle_area(diameter))
    THEN RDiv(circle_area(reference), circle_area(diameter))
    ELSE <<1, 1>>

\* the JSON that send_command writes for command_data: with a syringeDiameter the
\* frequency is scaled by the area ratio and the diameter keys are removed
wire_record(cmd) ==
    IF "syringeDiameter" \in DOMAIN cmd /\ "freq" \in DOMAIN cmd
    THEN [k \in (DOMAIN cmd) \ {"syringeDiameter", "referenceDiameter"} |->
            IF k = "freq"
            THEN RMul(cmd.freq,
                      area_ratio(cmd.syringeDiameter,
                                 IF "referenceDiameter" \in DOMAIN cmd
                                 THEN cmd.referenceDiameter
                                 ELSE DefaultReferenceDiameter))
            ELSE cmd[k]]
    ELSE cmd

\* SerialManager.send_command, opened being the manager's open_ports: what reaches
\* the wire
send_command(opened, cmd) ==
    IF cmd.port \in opened THEN <<wire_record(cmd)>> ELSE <<>>

\* FreeStepController.stop_command: the commands written (none when the motor is
\* not wired to the MCU or the port is not open in this controller)
stop_command(opened, port, mcu, motor) ==
    IF motor_config(mcu, motor) = NoneProfile THEN <<>>
    ELSE send_command(opened, StopCmd(port, motor_config(mcu, motor).step,
                                 motor_config(mcu, motor).dir))

\* FreeStepController.run_basic_command(port, motor_profile, mcu_profile, ups, direction)
run_basic_command_params == {"port", "motor_profile", "mcu_profile", "ups", "direction"}

run_basic_command(opened, port, motor, mcu, ups, direction) ==
    IF ~motor.calibrated THEN <<>>
    ELSE IF motor_config(mcu, motor) = NoneProfile THEN <<>>
    ELSE IF convert_ups_to_freq(motor, ups) = None THEN <<>>
    ELSE send_command(opened, BasicCmd(port, motor_config(mcu, motor).step,
                                  motor_config(mcu, motor).dir,
                                  convert_ups_to_freq(motor, ups), direction))

\* the keyword arguments FreeStepPump._update passes beside the five positional ones
update_call_keywords == {"diameter_ratio"}

\* Python binds a call only when every keyword names a parameter
CallBinds(keywords, params) == keywords \subseteq params

----------------------------------------------------------------------------
(* FreeStepPump: __enter__, __exit__ and _update *)

MaxControllers == 2      \* FreeStepController objects constructed in one behaviour
MaxUsers == 2            \* entries of one _port_users list

\* self.syringe_diameter in mm
syringe_diameter(p) == IF p = "fp1" THEN <<15, 1>> ELSE <<30, 1>>

\* flow rates (mL/min) a protocol asks for
Rates == {<<0, 1>>, <<2, 1>>, <<-2, 1>>, <<1, 2000000>>}

StopThreshold == <<1, 1000000>>      \* 0.000001

Without(f, k) == [x \in (DOMAIN f) \ {k} |-> f[x]]

Call(op, p, result) ==
    [op |-> op, pump |-> p, prev |-> rate[p], result |-> result]

\* FreeStepPump.__enter__; openOk: whether serial.Serial(port) succeeds
EnterBody(p, openOk) ==
    LET port == serial_port(p)
        users == IF port \in DOMAIN port_users THEN port_users
                 ELSE port_users @@ (port :> <<>>)
        existing == port \in DOMAIN shared_controllers
        c == IF existing THEN shared_controllers[port] ELSE nextCtl + 1
        mcu == FindByID(mcuStore, mcu_id(p))
        motor == FindByID(motorStore, motor_id(p))
        withInfo == IF motor.syringeInfo = <<>>
                    THEN [motor EXCEPT !.syringeInfo = <<syringe_diameter(p)>>]
                    ELSE motor
        result == IF ~existing /\ ~openOk THEN "RuntimeError: Failed to connect"
                  ELSE IF ~Truthy(mcu) THEN "RuntimeError: MCU not found"
                  ELSE IF ~Truthy(motor) THEN "RuntimeError: Motor not found"
                  ELSE IF ~motor.calibrated THEN "RuntimeError: not calibrated"
                  ELSE "ok"
        connected == existing \/ openOk
        openAfter == IF existing THEN open_ports
                     ELSE Append(open_ports, IF openOk THEN {port} ELSE {})
    IN  /\ port_users' = [users EXCEPT ![port] = Append(@, p)]
        /\ controller' = [controller EXCEPT ![p] = c]
        /\ nextCtl' = IF existing THEN nextCtl ELSE nextCtl + 1
        /\ open_ports' = openAfter
        /\ shared_controllers' = IF existing \/ ~openOk THEN shared_controllers
                                 ELSE shared_controllers @@ (port :> c)
        /\ mcu_profile' = IF connected THEN [mcu_profile EXCEPT ![p] = mcu]
                          ELSE mcu_profile
        /\ motor_profile' = IF ~connected THEN motor_profile
                            ELSE IF result = "ok"
                                 THEN [motor_profile EXCEPT ![p] = withInfo]
                            ELSE [motor_profile EXCEPT ![p] = motor]
        /\ motorStore' = IF result = "ok" /\ motor.syringeInfo = <<>>
                         THEN update_motor(motorStore, withInfo)
                         ELSE motorStore
        /\ port_initialized' = IF result = "ok"
                               THEN [port_initialized EXCEPT ![p] = TRUE]
                               ELSE port_initialized
        /\ inside' = [inside EXCEPT ![p] = (result = "ok")]
        /\ lastSent' = IF result = "ok"
                       THEN stop_command(openAfter[c], port, mcu, withInfo)
                       ELSE <<>>
        /\ lastCall' = Call("enter", p, result)
        /\ UNCHANGED <<mcuStore, last_rate, rate>>

NoUsersLeft_IgnoringOthers(list) == TRUE

\* "if not _port_users[self.serial_port]": this was the last pump using the port
NoUsersLeft(list) == list = <<>>

\* FreeStepPump.__exit__
ExitBody(p) ==
    LET port == serial_port(p)
        c == controller[p]
        sent == IF port_initialized[p] /\ Truthy(mcu_profile[p]) /\ Truthy(motor_profile[p])
                THEN stop_command(open_ports[c], port, mcu_profile[p], motor_profile[p])
                ELSE <<>>
        known == port \in DOMAIN port_users
        users == IF known THEN [port_users EXCEPT ![port] = Remove(@, p)] ELSE port_users
        last == known /\ NoUsersLeft(users[port]) /\ port \in DOMAIN shared_controllers
    IN  /\ port_users' = users
        /\ open_ports' = IF last
                         THEN [open_ports EXCEPT ![shared_controllers[port]] = {}]
                         ELSE open_ports
        /\ shared_controllers' = IF last THEN Without(shared_controllers, port)
                                 ELSE shared_controllers
        /\ inside' = [inside EXCEPT ![p] = FALSE]
        /\ lastSent' = sent
        /\ lastCall' = Call("exit", p, "ok")
        /\ UNCHANGED <<nextCtl, controller, mcu_profile, motor_profile, port_initialized,
                       last_rate, rate, motorStore, mcuStore>>

\* diameter_ratio as _update computes it: (calibrated_diameter / current_diameter) ** 2
\* when both are set and differ, else 1.0
diameter_ratio(p) ==
    LET calibrated_diameter == IF motor_profile[p].syringeInfo # <<>>
                               THEN motor_profile[p].syringeInfo[1]
                               ELSE None
        current_diameter == syringe_diameter(p)
    IN  IF /\ calibrated_diameter # None
           /\ calibrated_diameter # RZero
           /\ current_diameter # RZero
           /\ calibrated_diameter # current_diameter
        THEN RMul(RDiv(calibrated_diameter, current_diameter),
                  RDiv(calibrated_diameter, current_diameter))
        ELSE <<1, 1>>

\* FreeStepPump._update after the executor has set self.rate to r; writeOk: whether
\* port.write succeeds (send_command catches its exception and returns False)
UpdateBodyW(p, r, writeOk) ==
    LET port == serial_port(p)
        c == controller[p]
        ready == port_initialized[p] /\ Truthy(mcu_profile[p]) /\ Truthy(motor_profile[p])
        changed == r # last_rate[p]
        direction == IF RLt(r, RZero) THEN "backward" ELSE "forward"
        abs_rate == RAbs(r)
        stop == IF writeOk
                THEN stop_command(open_ports[c], port, mcu_profile[p], motor_profile[p])
                ELSE <<>>
        binds == CallBinds(update_call_keywords, run_basic_command_params)
        run == IF binds /\ writeOk
               THEN run_basic_command(open_ports[c], port, motor_profile[p], mcu_profile[p],
                                      abs_rate, direction)
               ELSE <<>>
        sent == IF ~ready \/ ~changed THEN <<>>
                ELSE IF RLe(abs_rate, StopThreshold) THEN stop
                ELSE stop \o run
        result == IF ~ready THEN "RuntimeError: not properly initialized"
                  ELSE IF changed /\ ~RLe(abs_rate, StopThreshold) /\ ~binds THEN "TypeError"
                  ELSE "ok"
    IN  /\ rate' = [rate EXCEPT ![p] = r]
        /\ last_rate' = IF ready /\ changed THEN [last_rate EXCEPT ![p] = r] ELSE last_rate
        /\ lastSent' = sent
        /\ lastCall' = Call("update", p, result)
        /\ UNCHANGED <<port_users, shared_controllers, open_ports, nextCtl, controller,
                       mcu_profile, motor_profile, port_initialized, inside,
                       motorStore, mcuStore>>

UpdateBody(p, r) == UpdateBodyW(p, r, TRUE)

----------------------------------------------------------------------------
(* Spec: any number of FreeStepPumps entering, updating and leaving *)

\* the profile fit produces from trials at 100 Hz and 500 Hz over 10 s
Trial1 == [freq |-> <<100, 1>>, duration |-> <<10, 1>>, measurement |-> <<1, 6>>]
Trial2 == [freq |-> <<500, 1>>, duration |-> <<10, 1>>, measurement |-> <<5, 6>>]

McuA == [uniqueID |-> "mcuA",
         motors |-> <<[uniqueID |-> "m1", step |-> 2, dir |-> 3],
                      [uniqueID |-> "m2", step |-> 4, dir |-> 5]>>]

\* m1 calibrated with its syringe recorded, m2 calibrated by an older tool without
\* syringeInfo, m3 absent, uncalibrated, or calibrated but not wired to the MCU
MotorStores ==
    LET m1 == CalibratedProfile(NewMotor("m1"), Trial1, Trial2, <<15, 1>>)
        m2 == [CalibratedProfile(NewMotor("m2"), Trial1, Trial2, <<15, 1>>)
                 EXCEPT !.syringeInfo = <<>>]
        m3 == CalibratedProfile(NewMotor("m3"), Trial1, Trial2, <<15, 1>>)
    IN  {<<m1, m2>>, <<m1, m2, NewMotor("m3")>>, <<m1, m2, m3>>}

PoolInit ==
    /\ port_users = <<>>
    /\ shared_controllers = <<>>
    /\ open_ports = <<>>
    /\ nextCtl = 0
    /\ controller = [p \in Pumps |-> 0]
    /\ mcu_profile = [p \in Pumps |-> NoneProfile]
    /\ motor_profile = [p \in Pumps |-> NoneProfile]
    /\ port_initialized = [p \in Pumps |-> FALSE]
    /\ last_rate = [p \in Pumps |-> RZero]
    /\ rate = [p \in Pumps |-> RZero]
    /\ inside = [p \in Pumps |-> FALSE]
    /\ mcuStore = <<McuA>>
    /\ lastCall = [op |-> "init", pump |-> "None", prev |-> RZero, result |-> "ok"]
    /\ lastSent = <<>>

DriversInit ==
    /\ tmc_ser = "None"
    /\ tmc_rate = RZero
    /\ tmc_frequency = None
    /\ tmc_inside = FALSE
    /\ hv_ser = "unset"
    /\ hv_rate = RZero
    /\ hv_inside = FALSE
    /\ drv_prev = [d \in {"tmc", "harvard"} |-> None]

\* the calibration tool as constructed, widgets at their defaults
ToolInit ==
    /\ w_first = [Trial1 EXCEPT !.measurement = RZero]
    /\ w_second = [Trial2 EXCEPT !.measurement = RZero]
    /\ w_named = FALSE
    /\ w_diameter = <<15, 1>>
    /\ selected_motor = NoneProfile
    /\ tool_port = "None"
    /\ fitted = FALSE
    /\ cal_call = [op |-> "init"]

\* no protocol is being run
\* components of an execution: two FreeStepPumps on one port, a TMCPump and a
\* HarvardSyringePump
ExComponents == {"fp1", "fp2", "tmc", "harvard"}

ExecInit ==
    /\ ex_state = "Idle"
    /\ ex_abort = FALSE
    /\ ex_task = [c \in ExComponents |-> "pending"]
    /\ ex_log = [c \in ExComponents |-> <<>>]

\* the component classes of components.py that are instantiated
Classes == {"Pump", "Sensor", "Valve"}

NamesInit ==
    /\ id_counter = [cls \in Classes |-> 0]
    /\ used_names = {}
    /\ components = <<>>
    /\ cmp_call = [op |-> "init"]

\* JupyterCalibrationTool.__init__ ends with refresh_mcus() and
\* update_association_dropdowns()
AssocInit ==
    /\ associate_mcu_options = mcuStore
    /\ selected_mcu = NoneProfile
    /\ edit_motor_mcu_options = <<>>
    /\ current_motor_id = "None"
    /\ assoc_call = [op |-> "init"]

\* Sensor.__init__: rate 0 Hz; update() has not been called
SensorInit ==
    /\ sensor_rate = 0
    /\ sensor_pc = "none"
    /\ sensor_readings = 0
    /\ sensor_call = [op |-> "init"]

LateInit ==
    /\ tube_call = [op |-> "init"]
    /\ AssocInit
    /\ SensorInit

ReaderInit ==
    /\ sm_open_ports = <<>>
    /\ sm_is_open = <<>>
    /\ sm_readers = <<>>
    /\ sm_call = [op |-> "init"]

NoRun ==
    /\ run_pc = "idle"
    /\ run_pump = "None"
    /\ run_rate = RZero
    /\ wire = <<>>
    /\ loop_owner = "None"
    /\ pending = [p \in Pumps |-> <<>>]
    /\ link = <<>>
    /\ proto = <<>>
    /\ build_call = [op |-> "init"]
    /\ ExecInit
    /\ ReaderInit
    /\ NamesInit
    /\ os_answers = <<>>
    /\ LateInit

Init ==
    /\ PoolInit
    /\ motorStore \in MotorStores
    /\ DriversInit
    /\ ToolInit
    /\ NoRun

\* a with-block is entered by a pump that is outside one
Enter ==
    \E p \in Pumps, openOk \in BOOLEAN :
        /\ ~inside[p]
        /\ IF serial_port(p) \in DOMAIN shared_controllers THEN TRUE
           ELSE nextCtl < MaxControllers
        /\ IF serial_port(p) \in DOMAIN port_users
           THEN Len(port_users[serial_port(p)]) < MaxUsers
           ELSE TRUE
        /\ EnterBody(p, openOk)
        /\ UNCHANGED <<drvVars, calVars, runVars, concVars, extVars>>

\* the with-block is left
Exit == \E p \in Pumps : inside[p] /\ ExitBody(p) /\ UNCHANGED <<drvVars, calVars, runVars, concVars, extVars>>

\* the executor applies a rate inside the with-block
Update ==
    \E p \in Pumps, r \in Rates : inside[p] /\ UpdateBody(p, r) /\ UNCHANGED <<drvVars, calVars, runVars, concVars, extVars>>

Next == Enter \/ Exit \/ Update

Spec == Init /\ [][Next]_vars

----------------------------------------------------------------------------
(* TMCPump and HarvardSyringePump: __enter__, __exit__ and _update *)

TmcStepPin == 2
TmcDirPin == 3
TmcCurrent == 800
TmcMicrosteps == 16
TmcStepsPerMl == 200

TmcStop == [type |-> "stop", stepPin |-> TmcStepPin, dirPin |-> TmcDirPin]
TmcBasic(hz, direction) ==
    [type |-> "basic", stepPin |-> TmcStepPin, dirPin |-> TmcDirPin, freq |-> hz,
     direction |-> direction, current |-> TmcCurrent, microsteps |-> TmcMicrosteps]

\* TMCPump._hz_from_flow_rate
hz_from_flow_rate(r) == RDiv(RMul(r, <<TmcStepsPerMl, 1>>), <<SecondsPerMinute, 1>>)

DrvCall(op, d, result) ==
    [op |-> op, pump |-> d, prev |-> drv_prev[d], result |-> result]

\* TMCPump._send_command: RuntimeError without a connection, PortNotOpenError from
\* pyserial on a closed one
tmc_send_result == CASE tmc_ser = "None" -> "RuntimeError: Serial connection not established"
                     [] tmc_ser = "closed" -> "PortNotOpenError"
                     [] OTHER -> "ok"

\* TMCPump.__enter__
TmcEnterBody(openOk) ==
    /\ ~tmc_inside
    /\ tmc_ser' = IF openOk THEN "open" ELSE tmc_ser
    /\ tmc_inside' = openOk
    /\ lastSent' = <<>>
    /\ lastCall' = DrvCall("enter", "tmc", IF openOk THEN "ok" ELSE "SerialException")
    /\ UNCHANGED <<tmc_rate, tmc_frequency, hv_ser, hv_rate, hv_inside, drv_prev>>

TmcEnter == \E openOk \in BOOLEAN : TmcEnterBody(openOk) /\ UNCHANGED <<poolVars, calVars, runVars, concVars, extVars>>

\* an __exit__ that closes the port without stop()
TmcExitBody_CloseOnly ==
    /\ tmc_inside
    /\ tmc_inside' = FALSE
    /\ tmc_ser' = IF tmc_ser = "open" THEN "closed" ELSE tmc_ser
    /\ lastSent' = <<>>
    /\ lastCall' = DrvCall("exit", "tmc", "ok")
    /\ UNCHANGED <<tmc_rate, tmc_frequency, hv_ser, hv_rate, hv_inside, drv_prev>>

\* TMCPump.__exit__: stop(), then self._ser.close()
TmcExitBody ==
    /\ tmc_inside
    /\ tmc_inside' = FALSE
    /\ tmc_ser' = IF tmc_ser = "open" THEN "closed" ELSE tmc_ser
    /\ tmc_frequency' = IF tmc_send_result = "ok" THEN RZero ELSE tmc_frequency
    /\ lastSent' = IF tmc_send_result = "ok" THEN <<TmcStop>> ELSE <<>>
    /\ lastCall' = DrvCall("exit", "tmc", tmc_send_result)
    /\ UNCHANGED <<tmc_rate, hv_ser, hv_rate, hv_inside, drv_prev>>

TmcExit == TmcExitBody /\ UNCHANGED <<poolVars, calVars, runVars, concVars, extVars>>

\* the command TMCPump._update builds for self.rate = r
tmc_update_command(r) ==
    IF hz_from_flow_rate(r) = RZero THEN TmcStop
    ELSE TmcBasic(RAbs(hz_from_flow_rate(r)),
                  IF RLe(RZero, r) THEN "forward" ELSE "backward")

\* TMCPump._update after the executor has set self.rate to r
TmcUpdateBody(r) ==
    /\ tmc_inside
    /\ tmc_rate' = r
    /\ lastSent' = IF tmc_send_result = "ok" THEN <<tmc_update_command(r)>> ELSE <<>>
    /\ lastCall' = DrvCall("update", "tmc", tmc_send_result)
    /\ drv_prev' = [drv_prev EXCEPT !["tmc"] = r]
    /\ UNCHANGED <<tmc_ser, tmc_frequency, tmc_inside, hv_ser, hv_rate, hv_inside>>

TmcUpdate == \E r \in Rates : TmcUpdateBody(r) /\ UNCHANGED <<poolVars, calVars, runVars, concVars, extVars>>

\* HarvardSyringePump.__enter__: opens the port and writes svolume and diameter
HarvardEnterBody(openOk) ==
    /\ ~hv_inside
    /\ hv_ser' = IF openOk THEN "open" ELSE hv_ser
    /\ hv_inside' = openOk
    /\ lastSent' = IF openOk THEN <<[type |-> "svolume"], [type |-> "diameter"]>>
                   ELSE <<>>
    /\ lastCall' = DrvCall("enter", "harvard",
                           IF openOk THEN "ok" ELSE "SerialException")
    /\ UNCHANGED <<tmc_ser, tmc_rate, tmc_frequency, tmc_inside, hv_rate, drv_prev>>

HarvardEnter == \E openOk \in BOOLEAN : HarvardEnterBody(openOk) /\ UNCHANGED <<poolVars, calVars, runVars, concVars, extVars>>

\* HarvardSyringePump.__exit__: rate = 0, write stop, del self._ser
HarvardExitBody ==
    /\ hv_inside
    /\ hv_inside' = FALSE
    /\ hv_rate' = RZero
    /\ hv_ser' = "unset"
    /\ lastSent' = <<[type |-> "stop"]>>
    /\ lastCall' = DrvCall("exit", "harvard", "ok")
    /\ UNCHANGED <<tmc_ser, tmc_rate, tmc_frequency, tmc_inside, drv_prev>>

HarvardExit == HarvardExitBody /\ UNCHANGED <<poolVars, calVars, runVars, concVars, extVars>>

\* an _update that writes irate and irun for every rate, zero included
harvard_update_commands_NoStop(r) ==
    <<[type |-> "irate", rate |-> r], [type |-> "irun"]>>

\* the lines HarvardSyringePump._update writes for self.rate = r
harvard_update_commands(r) ==
    IF r = RZero THEN <<[type |-> "stop"]>>
    ELSE <<[type |-> "irate", rate |-> r], [type |-> "irun"]>>

\* HarvardSyringePump._update after the executor has set self.rate to r
HarvardUpdateBody(r) ==
    /\ hv_inside
    /\ hv_rate' = r
    /\ lastSent' = harvard_update_commands(r)
    /\ lastCall' = DrvCall("update", "harvard", "ok")
    /\ drv_prev' = [drv_prev EXCEPT !["harvard"] = r]
    /\ UNCHANGED <<tmc_ser, tmc_rate, tmc_frequency, tmc_inside, hv_ser, hv_inside>>

HarvardUpdate == \E r \in Rates : HarvardUpdateBody(r) /\ UNCHANGED <<poolVars, calVars, runVars, concVars, extVars>>

InitDrivers ==
    /\ PoolInit
    /\ motorStore = <<>>
    /\ DriversInit
    /\ ToolInit
    /\ NoRun

NextDrivers ==
    TmcEnter \/ TmcExit \/ TmcUpdate \/ HarvardEnter \/ HarvardExit \/ HarvardUpdate

SpecDrivers == InitDrivers /\ [][NextDrivers]_vars

\* C3: an _update whose rate equals the rate of the previous _update on the same
\* device writes no command to the serial link.
C3_OnlyOnChange ==
    (/\ lastCall.op = "update"
     /\ lastCall.result = "ok"
     /\ lastCall.pump \in {"tmc", "harvard"}
     /\ lastCall.prev = (IF lastCall.pump = "tmc" THEN tmc_rate ELSE hv_rate))
    => lastSent = <<>>

----------------------------------------------------------------------------
(* JupyterCalibrationTool: connect_port, calculate_calibration and run_test *)

Range(list) == {list[i] : i \in 1..Len(list)}

\* values the operator can type into the trial widgets
TrialVolumes == {<<0, 1>>, <<1, 1>>, <<5, 1>>}
FirstTrials ==
    [freq : {<<100, 1>>, <<500, 1>>}, duration : {<<0, 1>>, <<10, 1>>},
     measurement : TrialVolumes]
SecondTrials ==
    [freq : {<<500, 1>>, <<1000, 1>>}, duration : {<<10, 1>>, <<20, 1>>},
     measurement : {<<0, 1>>, <<5, 1>>}]
Diameters == {<<0, 1>>, <<8, 1>>, <<15, 1>>}
TestDurationS == <<5, 1>>

\* flow rates typed into the test widget for a motor: the ends of its calibrated
\* band, the two observed trial flows, and values inside and outside the band
TestUPS(motor) ==
    IF ~Truthy(motor) \/ ~motor.calibrated THEN {<<1, 1>>}
    ELSE {motor.minUPS, motor.maxUPS,
          RDiv(RAdd(motor.minUPS, motor.maxUPS), <<2, 1>>),
          RDiv(motor.minUPS, <<2, 1>>), RAdd(motor.maxUPS, <<1, 1>>)}
         \cup {trial_ups(t.measurement, t.duration) :
                  t \in {u \in {w_first, w_second} : u.duration # RZero}}

TimedCmd(port, step, dir, freq, direction, time_value, time_unit) ==
    [port |-> port, type |-> "timed", stepPin |-> step, dirPin |-> dir, freq |-> freq,
     direction |-> direction, timeValue |-> time_value, timeUnit |-> time_unit]

\* command["syringeDiameter"] = syringeInfo["innerDiameterMM"] when it is recorded
with_syringe_diameter(cmd, motor) ==
    IF motor.syringeInfo # <<>>
    THEN cmd @@ [syringeDiameter |-> motor.syringeInfo[1]]
    ELSE cmd

MeasurementsValid_FirstOnly(m1, m2) == RLt(RZero, m1)

\* "if first_measurement <= 0 or second_measurement <= 0: return"
MeasurementsValid(m1, m2) == RLt(RZero, m1) /\ RLt(RZero, m2)

\* how calculate_calibration ends for the motor sel and the widget values
calculate_result(sel) ==
    IF ~Truthy(sel) THEN "return: select a motor profile"
    ELSE IF ~w_named THEN "return: syringe brand and model"
    ELSE IF RLe(w_diameter, RZero) THEN "return: syringe volume and diameter"
    ELSE IF ~MeasurementsValid(w_first.measurement, w_second.measurement)
         THEN "return: measurements"
    ELSE IF w_first.duration = RZero \/ w_second.duration = RZero
         THEN "ZeroDivisionError"
    ELSE IF w_second.freq = w_first.freq THEN "ZeroDivisionError"
    ELSE "ok"

\* the port the calibration rig is plugged into
ToolPorts == {"COM3"}

\* JupyterCalibrationTool.connect_port
ConnectTool ==
    \E port \in ToolPorts, openOk \in BOOLEAN :
        /\ tool_port' = IF openOk THEN port ELSE tool_port
        /\ cal_call' = [op |-> "connect_port",
                        result |-> IF openOk THEN "ok" ELSE "failed"]
        /\ lastSent' = <<>>
        /\ UNCHANGED <<w_first, w_second, w_named, w_diameter, selected_motor, fitted,
                       poolVars, lastCall, drvVars, runVars, concVars, extVars>>

\* JupyterCalibrationTool.calculate_calibration; chosen: calibration_motor_dropdown.value
CalculateCalibration ==
    \E chosen \in {NoneProfile} \cup Range(motorStore) :
        LET sel == IF Truthy(chosen) THEN chosen ELSE selected_motor
            result == calculate_result(sel)
            profile == CalibratedProfile(sel, w_first, w_second, w_diameter)
        IN  /\ selected_motor' = IF result = "ok" THEN profile ELSE sel
            /\ motorStore' = IF result = "ok" THEN update_motor(motorStore, profile)
                             ELSE motorStore
            /\ fitted' = (fitted \/ result = "ok")
            /\ cal_call' = [op |-> "calculate", result |-> result, chosen |-> chosen]
            /\ lastSent' = <<>>
            /\ UNCHANGED <<w_first, w_second, w_named, w_diameter, tool_port, lastCall,
                           drvVars, runVars, concVars, extVars, port_users, shared_controllers, open_ports, nextCtl,
                           controller, mcu_profile, motor_profile, port_initialized,
                           last_rate, rate, inside, mcuStore>>

\* how run_test ends before it sends anything ("send": it reaches send_command)
run_test_result(mcu, motor, ups) ==
    IF tool_port = "None" THEN "return: connect to a port"
    ELSE IF ~Truthy(mcu) THEN "return: select an MCU profile"
    ELSE IF ~Truthy(motor) THEN "return: select a motor profile"
    ELSE IF ~motor.calibrated THEN "return: not calibrated"
    ELSE IF RLt(ups, motor.minUPS) THEN "return: speed too low"
    ELSE IF RLt(motor.maxUPS, ups) THEN "return: speed too high"
    ELSE IF motor_config(mcu, motor) = NoneProfile THEN "return: motor not in MCU"
    ELSE IF convert_ups_to_freq(motor, ups) = None THEN "return: freq is None"
    ELSE "send"

\* JupyterCalibrationTool.run_test; mcu, motor: the test dropdown values
RunTest ==
    \E mcu \in {NoneProfile, McuA}, motor \in {NoneProfile} \cup Range(motorStore),
       direction \in {"forward", "backward"} :
        \E ups \in TestUPS(motor) :
            LET result == run_test_result(mcu, motor, ups)
                freq == IF result \in {"send", "return: freq is None"}
                        THEN convert_ups_to_freq(motor, ups)
                        ELSE None
                command == with_syringe_diameter(
                               TimedCmd(tool_port, motor_config(mcu, motor).step,
                                        motor_config(mcu, motor).dir, freq, direction,
                                        TestDurationS, "s"),
                               motor)
            IN  /\ lastSent' = IF result = "send" THEN send_command({tool_port}, command)
                               ELSE <<>>
                /\ cal_call' = [op |-> "run_test", result |-> result, ups |-> ups,
                                freq |-> freq, motor |-> motor]
                /\ UNCHANGED <<w_first, w_second, w_named, w_diameter, selected_motor,
                               tool_port, fitted, poolVars, lastCall, drvVars, runVars, concVars, extVars>>

InitCal ==
    /\ PoolInit
    /\ DriversInit
    /\ motorStore \in {<<NewMotor("m1")>>,
                       <<CalibratedProfile(NewMotor("m1"), Trial1, Trial2, <<15, 1>>)>>}
    /\ w_first \in FirstTrials
    /\ w_second \in SecondTrials
    /\ w_named \in BOOLEAN
    /\ w_diameter \in Diameters
    /\ selected_motor = NoneProfile
    /\ tool_port = "None"
    /\ fitted = FALSE
    /\ cal_call = [op |-> "init"]
    /\ NoRun

NextCal == ConnectTool \/ CalculateCalibration \/ RunTest

SpecCal == InitCal /\ [][NextCal]_vars

----------------------------------------------------------------------------
(* A protocol with one entry (pump, start 0, duration D, rate) run on a FreeStepPump:
   the with-block is entered, the rate is applied at the window start, reverted to
   zero at its end, and the with-block is left; an exception raised by _update
   aborts the run, which stops the pump and leaves the with-block *)

RunRates == {<<2, 1>>, <<-2, 1>>, <<5, 1>>, <<1, 2000000>>}

Tagged(phase, cmds) == [i \in 1..Len(cmds) |-> [phase |-> phase, cmd |-> cmds[i]]]

\* execution starts: the components are entered
RunEnter ==
    \E openOk \in BOOLEAN :
        /\ run_pc = "idle"
        /\ EnterBody(run_pump, openOk)
        /\ run_pc' = IF lastCall'.result = "ok" THEN "entered" ELSE "failed"
        /\ wire' = wire \o Tagged("enter", lastSent')
        /\ UNCHANGED <<run_pump, run_rate, drvVars, calVars, concVars, extVars>>

\* the window starts: the pump's rate is set and _update is called
WindowStart ==
    /\ run_pc = "entered"
    /\ UpdateBody(run_pump, run_rate)
    /\ run_pc' = IF lastCall'.result = "ok" THEN "running" ELSE "error"
    /\ wire' = wire \o Tagged("start", lastSent')
    /\ UNCHANGED <<run_pump, run_rate, drvVars, calVars, concVars, extVars>>

\* the window ends: the pump is reverted to rate zero
WindowEnd ==
    /\ run_pc = "running"
    /\ UpdateBody(run_pump, RZero)
    /\ run_pc' = IF lastCall'.result = "ok" THEN "ended" ELSE "error"
    /\ wire' = wire \o Tagged("end", lastSent')
    /\ UNCHANGED <<run_pump, run_rate, drvVars, calVars, concVars, extVars>>

\* abort after a device error: the pump is set to rate zero, best effort
AbortStop ==
    /\ run_pc = "error"
    /\ UpdateBody(run_pump, RZero)
    /\ run_pc' = "stopped"
    /\ wire' = wire \o Tagged("end", lastSent')
    /\ UNCHANGED <<run_pump, run_rate, drvVars, calVars, concVars, extVars>>

\* the components are left
RunExit ==
    /\ run_pc \in {"ended", "stopped"}
    /\ ExitBody(run_pump)
    /\ run_pc' = IF run_pc = "ended" THEN "completed" ELSE "aborted"
    /\ wire' = wire \o Tagged("exit", lastSent')
    /\ UNCHANGED <<run_pump, run_rate, drvVars, calVars, concVars, extVars>>

InitRun ==
    /\ PoolInit
    /\ motorStore \in MotorStores
    /\ DriversInit
    /\ ToolInit
    /\ run_pc = "idle"
    /\ run_pump \in Pumps
    /\ run_rate \in RunRates
    /\ wire = <<>>
    /\ loop_owner = "None"
    /\ pending = [p \in Pumps |-> <<>>]
    /\ link = <<>>
    /\ proto = <<>>
    /\ build_call = [op |-> "init"]
    /\ ExecInit
    /\ ReaderInit
    /\ NamesInit
    /\ os_answers = <<>>
    /\ LateInit

NextRun == RunEnter \/ WindowStart \/ WindowEnd \/ AbortStop \/ RunExit

SpecRun == InitRun /\ [][NextRun]_vars

----------------------------------------------------------------------------
(* Pumps sharing one port whose _update coroutines are run by one event loop: a
   coroutine keeps the loop until it returns or reaches an await; a command line
   goes out in two pieces, so a write is in flight between them *)

MaxLines == 4
SharingPumps == {p \in Pumps : serial_port(p) = "COM3"}

\* the await expressions in the body of FreeStepPump._update: none (it sleeps with
\* the blocking time.sleep and calls the synchronous send_command)
update_await_points_MidWrite == {"mid-write"}

update_await_points == {}

\* the pieces port.write puts on the link for the lines cmds of pump p
Pieces(op, p, cmds) ==
    [i \in 1..(2 * Len(cmds)) |->
        [op |-> op, pump |-> p, type |-> cmds[(i + 1) \div 2].type,
         part |-> 2 - (i % 2)]]

\* __enter__ runs before the tasks are started and writes its stop line at once
SharedEnter ==
    \E p \in SharingPumps, openOk \in BOOLEAN :
        /\ ~inside[p]
        /\ loop_owner = "None"
        /\ \A q \in Pumps : pending[q] = <<>>
        /\ IF serial_port(p) \in DOMAIN shared_controllers THEN TRUE
           ELSE nextCtl < MaxControllers
        /\ IF serial_port(p) \in DOMAIN port_users
           THEN Len(port_users[serial_port(p)]) < MaxUsers
           ELSE TRUE
        /\ Len(link) < 2 * MaxLines
        /\ EnterBody(p, openOk)
        /\ link' = link \o Pieces("enter", p, lastSent')
        /\ UNCHANGED <<loop_owner, pending, drvVars, calVars, runVars, extVars>>

\* the event loop starts the _update coroutine of a pump whose rate was set to r
TaskBegin ==
    \E p \in SharingPumps, r \in Rates :
        /\ inside[p]
        /\ loop_owner = "None"
        /\ pending[p] = <<>>
        /\ Len(link) + 2 * Cardinality({q \in Pumps : pending[q] # <<>>}) < 2 * MaxLines
        /\ UpdateBody(p, r)
        /\ pending' = [pending EXCEPT ![p] = Pieces("update", p, lastSent')]
        /\ loop_owner' = IF lastSent' = <<>> THEN "None" ELSE p
        /\ UNCHANGED <<link, drvVars, calVars, runVars, extVars>>

\* the coroutine that holds the loop, or one resumed after an await, writes its
\* next piece
TaskWrite ==
    \E p \in SharingPumps :
        /\ pending[p] # <<>>
        /\ loop_owner \in {p, "None"}
        /\ link' = Append(link, Head(pending[p]))
        /\ pending' = [pending EXCEPT ![p] = Tail(@)]
        /\ loop_owner' =
              IF Tail(pending[p]) = <<>> THEN "None"
              ELSE IF (IF Head(pending[p]).part = 1 THEN "mid-write" ELSE "after-write")
                         \in update_await_points
                   THEN "None"
              ELSE p
        /\ UNCHANGED <<poolVars, obsVars, drvVars, calVars, runVars, extVars>>

InitWrite ==
    /\ PoolInit
    /\ motorStore \in MotorStores
    /\ DriversInit
    /\ ToolInit
    /\ NoRun

NextWrite == SharedEnter \/ TaskBegin \/ TaskWrite

SpecWrite == InitWrite /\ [][NextWrite]_vars

----------------------------------------------------------------------------
(* ProtocolAlgorithm.create_protocol: the protocol is built from the pump
   configurations the GUI saved; Protocol.add belongs to mechwolf.core and is taken
   to reject an entry that overlaps an earlier one on the same component when
   the library checks for it *)

BuildPumps == {"pump_1", "pump_2"}

\* PumpConfig values saved by the GUI or loaded from the JSON file
PumpConfigs ==
    [pump : BuildPumps,
     flow_rate : {<<0, 1>>, <<6, 1>>, <<12, 1>>},
     volume : {<<0, 1>>, <<1, 1>>, <<2, 1>>},
     delay : {<<0, 1>>, <<5, 1>>, <<10, 1>>}]

ConfigLists == {<<c>> : c \in PumpConfigs} \cup {<<c, d>> : c, d \in PumpConfigs}

\* validate_inputs: the first ValueError it raises, if any
InputsValid(configs) ==
    \A i \in 1..Len(configs) :
        /\ configs[i].flow_rate # RZero
        /\ RLt(RZero, configs[i].volume)
        /\ RLe(RZero, configs[i].delay)

\* validate_pump_volumes: all configs of one pump have the same volume
PumpVolumesValid(configs) ==
    \A i, j \in 1..Len(configs) :
        configs[i].pump = configs[j].pump => configs[i].volume = configs[j].volume

\* the entry create_protocol adds for a config: start = delay,
\* duration = volume / flow_rate * 60 seconds
EntryOf(config) ==
    [component |-> config.pump,
     start |-> config.delay,
     duration |-> RMul(RDiv(config.volume, config.flow_rate), <<60, 1>>),
     rate |-> config.flow_rate]

\* two windows on one component share some time
Overlap(e, f) ==
    /\ e.component = f.component
    /\ RLt(e.start, RAdd(f.start, f.duration))
    /\ RLt(f.start, RAdd(e.start, e.duration))

\* Protocol.add: the protocol after the call and whether it raised
protocol_add(entries, e, checks) ==
    IF checks /\ \E i \in 1..Len(entries) : Overlap(entries[i], e)
    THEN [entries |-> entries, raised |-> TRUE]
    ELSE [entries |-> Append(entries, e), raised |-> FALSE]

\* the for loop of create_protocol: adds until an add raises
RECURSIVE add_all(_, _, _)
add_all(entries, configs, checks) ==
    IF configs = <<>> THEN [entries |-> entries, raised |-> FALSE]
    ELSE LET r == protocol_add(entries, EntryOf(Head(configs)), checks)
         IN  IF r.raised THEN r ELSE add_all(r.entries, Tail(configs), checks)

\* ProtocolAlgorithm.create_protocol on the configs of the GUI; checks: whether
\* Protocol.add detects overlapping windows
CreateProtocol ==
    \E configs \in ConfigLists, checks \in BOOLEAN :
        /\ build_call.op = "init"
        /\ LET valid == InputsValid(configs) /\ PumpVolumesValid(configs)
               r == IF valid THEN add_all(proto, configs, checks)
                    ELSE [entries |-> proto, raised |-> FALSE]
           IN  /\ proto' = r.entries
               /\ build_call' =
                     [op |-> "create_protocol", configs |-> configs, checks |-> checks,
                      result |-> IF ~valid THEN "Validation Error: returns None"
                                 ELSE IF r.raised THEN "Unexpected error: returns None"
                                 ELSE "returns protocol"]
        /\ UNCHANGED <<poolVars, obsVars, drvVars, calVars, runVars, concVars, execVars, readerVars, namesVars, acqVars,
                     lateVars>>

InitBuild ==
    /\ PoolInit
    /\ motorStore = <<>>
    /\ DriversInit
    /\ ToolInit
    /\ NoRun

NextBuild == CreateProtocol

SpecBuild == InitBuild /\ [][NextBuild]_vars

----------------------------------------------------------------------------
(* SpecExec: one execution of a protocol, a task per component.  The executor
   is described by the specification (Protocol Scheduler, Cancellation); the
   steps it takes on a component are the drivers' __enter__, _update and
   __exit__ *)

ExRates == {<<0, 1>>, <<2, 1>>}

\* component c's __enter__
CompEnter(c, openOk) ==
    IF c \in Pumps THEN EnterBody(c, openOk) /\ UNCHANGED drvVars
    ELSE IF c = "tmc" THEN TmcEnterBody(openOk) /\ UNCHANGED poolVars
    ELSE HarvardEnterBody(openOk) /\ UNCHANGED poolVars

\* the executor sets c.rate = r and calls c._update()
CompUpdate(c, r) ==
    IF c \in Pumps THEN UpdateBody(c, r) /\ UNCHANGED drvVars
    ELSE IF c = "tmc" THEN TmcUpdateBody(r) /\ UNCHANGED poolVars
    ELSE HarvardUpdateBody(r) /\ UNCHANGED poolVars

\* component c's __exit__
CompExit(c) ==
    IF c \in Pumps THEN ExitBody(c) /\ UNCHANGED drvVars
    ELSE IF c = "tmc" THEN TmcExitBody /\ UNCHANGED poolVars
    ELSE HarvardExitBody /\ UNCHANGED poolVars

\* the types of the commands a handler wrote, in order
Types(cmds) == [i \in 1..Len(cmds) |-> cmds[i].type]

Logged(c, events) == ex_log' = [ex_log EXCEPT ![c] = @ \o events]
TaskAt(c, pos) == ex_task' = [ex_task EXCEPT ![c] = pos]
OutsideExec ==
    UNCHANGED <<calVars, runVars, concVars, proto, build_call, readerVars, namesVars, acqVars,
                lateVars>>

\* execution starts
ExStart ==
    /\ ex_state = "Idle"
    /\ ex_state' = "Running"
    /\ UNCHANGED <<poolVars, obsVars, drvVars, ex_abort, ex_task, ex_log>>
    /\ OutsideExec

\* the task of component c acquires its device
TaskEnter ==
    \E c \in ExComponents, openOk \in BOOLEAN :
        /\ ex_state = "Running" /\ ~ex_abort /\ ex_task[c] = "pending"
        /\ CompEnter(c, openOk)
        /\ IF lastCall'.result = "ok"
           THEN /\ TaskAt(c, "entered")
                /\ Logged(c, <<"acquire">> \o Types(lastSent'))
                /\ UNCHANGED ex_abort
           ELSE /\ TaskAt(c, "failed")
                /\ Logged(c, <<"error">>)
                /\ ex_abort' = TRUE
        /\ UNCHANGED ex_state
        /\ OutsideExec

\* the task's window starts: the component's rate is set
TaskWindow ==
    \E c \in ExComponents, r \in ExRates :
        /\ ex_state = "Running" /\ ~ex_abort /\ ex_task[c] = "entered"
        /\ CompUpdate(c, r)
        /\ Logged(c, <<"window">> \o Types(lastSent')
                     \o IF lastCall'.result = "ok" THEN <<>> ELSE <<"error">>)
        /\ IF lastCall'.result = "ok"
           THEN TaskAt(c, "window") /\ UNCHANGED ex_abort
           ELSE UNCHANGED ex_task /\ ex_abort' = TRUE
        /\ UNCHANGED ex_state
        /\ OutsideExec

\* the task's last window ends: the component is reverted to rate zero
TaskRevert ==
    \E c \in ExComponents :
        /\ ex_state = "Running" /\ ~ex_abort /\ ex_task[c] = "window"
        /\ CompUpdate(c, RZero)
        /\ Logged(c, <<"revert">> \o Types(lastSent')
                     \o IF lastCall'.result = "ok" THEN <<>> ELSE <<"error">>)
        /\ IF lastCall'.result = "ok"
           THEN TaskAt(c, "finished") /\ UNCHANGED ex_abort
           ELSE UNCHANGED ex_task /\ ex_abort' = TRUE
        /\ UNCHANGED ex_state
        /\ OutsideExec

\* a finished task leaves its component's with-block
TaskExit ==
    \E c \in ExComponents :
        /\ ex_state = "Running" /\ ~ex_abort /\ ex_task[c] = "finished"
        /\ CompExit(c)
        /\ Logged(c, <<"exit">> \o Types(lastSent') \o <<"release">>)
        /\ TaskAt(c, "exited")
        /\ UNCHANGED <<ex_state, ex_abort>>
        /\ OutsideExec

\* operator cancel
ExCancel ==
    /\ ex_state = "Running" /\ ~ex_abort
    /\ ex_abort' = TRUE
    /\ UNCHANGED <<poolVars, obsVars, drvVars, ex_state, ex_task, ex_log>>
    /\ OutsideExec

\* the abort signal reaches a task that holds its device: the with-block is left
TaskAbort ==
    \E c \in ExComponents :
        /\ ex_state = "Running" /\ ex_abort
        /\ ex_task[c] \in {"entered", "window", "finished"}
        /\ CompExit(c)
        /\ Logged(c, <<"abort">> \o Types(lastSent') \o <<"release">>)
        /\ TaskAt(c, "exited")
        /\ UNCHANGED <<ex_state, ex_abort>>
        /\ OutsideExec

\* the abort signal reaches a task that has not acquired its device
TaskCancel ==
    \E c \in ExComponents :
        /\ ex_state = "Running" /\ ex_abort /\ ex_task[c] = "pending"
        /\ TaskAt(c, "cancelled")
        /\ UNCHANGED <<poolVars, obsVars, drvVars, ex_state, ex_abort, ex_log>>
        /\ OutsideExec

TasksOver == \A c \in ExComponents : ex_task[c] \in {"exited", "failed", "cancelled"}

ExComplete ==
    /\ ex_state = "Running" /\ ~ex_abort /\ TasksOver
    /\ ex_state' = "Completed"
    /\ UNCHANGED <<poolVars, obsVars, drvVars, ex_abort, ex_task, ex_log>>
    /\ OutsideExec

ExAborted ==
    /\ ex_state = "Running" /\ ex_abort /\ TasksOver
    /\ ex_state' = "Aborted"
    /\ UNCHANGED <<poolVars, obsVars, drvVars, ex_abort, ex_task, ex_log>>
    /\ OutsideExec

InitExec ==
    /\ PoolInit
    /\ motorStore \in MotorStores
    /\ DriversInit
    /\ ToolInit
    /\ NoRun

NextExec ==
    \/ ExStart \/ TaskEnter \/ TaskWindow \/ TaskRevert \/ TaskExit
    \/ ExCancel \/ TaskAbort \/ TaskCancel \/ ExComplete \/ ExAborted

SpecExec == InitExec /\ [][NextExec]_vars

----------------------------------------------------------------------------
(* SpecReader: SerialManager.open_port, close_port and the _read_responses
   threads of one manager *)

MaxOpens == 3

ManagedPorts == {"COM3", "COM4"}

\* the threads that have not returned from _read_responses
LiveReaders(port) ==
    {t \in 1..Len(sm_readers) : sm_readers[t].port = port /\ sm_readers[t].pc # "done"}

OutsideReader ==
    UNCHANGED <<poolVars, obsVars, drvVars, calVars, runVars, concVars, proto, build_call,
                execVars, namesVars, acqVars, lateVars>>

\* SerialManager.open_port; openOk: whether serial.Serial(port_name) succeeds
OpenPort ==
    \E port \in ManagedPorts, openOk \in BOOLEAN :
        LET handle == Len(sm_is_open) + 1
        IN  /\ Len(sm_is_open) < MaxOpens
            /\ IF port \in DOMAIN sm_open_ports
               THEN /\ sm_call' = [op |-> "open_port", port |-> port,
                                   result |-> "already open"]
                    /\ UNCHANGED <<sm_open_ports, sm_is_open, sm_readers>>
               ELSE IF openOk
               THEN /\ sm_is_open' = Append(sm_is_open, TRUE)
                    /\ sm_open_ports' = sm_open_ports @@ (port :> handle)
                    /\ sm_readers' = Append(sm_readers,
                                            [port |-> port, handle |-> None, pc |-> "start"])
                    /\ sm_call' = [op |-> "open_port", port |-> port, result |-> "opened"]
               ELSE /\ sm_call' = [op |-> "open_port", port |-> port,
                                   result |-> "SerialException: returns False"]
                    /\ UNCHANGED <<sm_open_ports, sm_is_open, sm_readers>>
            /\ OutsideReader

\* SerialManager.close_port
ClosePort ==
    \E port \in ManagedPorts :
        /\ IF port \in DOMAIN sm_open_ports
           THEN /\ sm_is_open' = [sm_is_open EXCEPT ![sm_open_ports[port]] = FALSE]
                /\ sm_open_ports' = Without(sm_open_ports, port)
                /\ sm_call' = [op |-> "close_port", port |-> port, result |-> "closed"]
           ELSE /\ sm_call' = [op |-> "close_port", port |-> port,
                               result |-> "returns False"]
                /\ UNCHANGED <<sm_open_ports, sm_is_open>>
        /\ UNCHANGED sm_readers
        /\ OutsideReader

\* one step of a _read_responses thread:
\*   start: port = self.open_ports[port_name]
\*   check: while port_name in self.open_ports and self.open_ports[port_name].is_open
\*   body:  port.in_waiting / readline() on the thread's own handle, then sleep(0.1)
ReaderStep ==
    \E t \in 1..Len(sm_readers) :
        LET r == sm_readers[t]
            next ==
                CASE r.pc = "start" ->
                         IF r.port \in DOMAIN sm_open_ports
                         THEN [r EXCEPT !.handle = sm_open_ports[r.port], !.pc = "check"]
                         ELSE [r EXCEPT !.pc = "done"]
                  [] r.pc = "check" ->
                         IF r.port \in DOMAIN sm_open_ports
                         THEN IF sm_is_open[sm_open_ports[r.port]]
                              THEN [r EXCEPT !.pc = "body"]
                              ELSE [r EXCEPT !.pc = "done"]
                         ELSE [r EXCEPT !.pc = "done"]
                  [] r.pc = "body" ->
                         IF sm_is_open[r.handle] THEN [r EXCEPT !.pc = "check"]
                         ELSE [r EXCEPT !.pc = "done"]
        IN  /\ r.pc # "done"
            /\ sm_readers' = [sm_readers EXCEPT ![t] = next]
            /\ sm_call' = [op |-> "_read_responses", port |-> r.port, result |-> next.pc]
            /\ UNCHANGED <<sm_open_ports, sm_is_open>>
            /\ OutsideReader

InitReader ==
    /\ PoolInit
    /\ motorStore = <<>>
    /\ DriversInit
    /\ ToolInit
    /\ NoRun

NextReader == OpenPort \/ ClosePort \/ ReaderStep

SpecReader == InitReader /\ [][NextReader]_vars

----------------------------------------------------------------------------
(* SpecSend: the pool of Spec, with _update also called on a pump that has left
   its with-block and with serial writes that fail *)

\* the pump whose _update is followed
SendPumps == {"fp1"}

\* zero, a rate inside the calibrated band and one above it
SendRates == {<<0, 1>>, <<2, 1>>, <<12, 1>>}

\* _update of a pump that is outside a with-block
UpdateReleased ==
    \E p \in SendPumps, r \in SendRates :
        /\ ~inside[p]
        /\ UpdateBody(p, r)
        /\ UNCHANGED <<drvVars, calVars, runVars, concVars, extVars>>

\* _update inside the with-block while port.write raises
UpdateWriteFails ==
    \E p \in SendPumps, r \in SendRates :
        /\ inside[p]
        /\ UpdateBodyW(p, r, FALSE)
        /\ UNCHANGED <<drvVars, calVars, runVars, concVars, extVars>>

NextSend == Enter \/ Exit \/ UpdateReleased \/ UpdateWriteFails

SpecSend == Init /\ [][NextSend]_vars

----------------------------------------------------------------------------
(* SpecNames: construction of components (components.py) *)

MaxComponents == 3

\* the name argument: None, or a name the caller gives
GivenNames == {"None", "Pump_0", "Sensor_0", "feed"}

\* self.__class__.__name__ + "_" + str(self.__class__.id_counter)
auto_name(cls, n) == cls \o "_" \o ToString(n)

\* Component.__init__ as reached through Pump, Sensor or Valve
Construct ==
    \E cls \in Classes, name \in GivenNames :
        /\ Len(components) < MaxComponents
        /\ IF name = "None"
           THEN /\ components' = Append(components,
                                        [cls |-> cls, name |-> auto_name(cls, id_counter[cls])])
                /\ id_counter' = [id_counter EXCEPT ![cls] = @ + 1]
                /\ used_names' = used_names \cup {auto_name(cls, id_counter[cls])}
                /\ cmp_call' = [op |-> "construct", cls |-> cls, name |-> name,
                                result |-> "ok"]
           ELSE IF name \notin used_names
           THEN /\ components' = Append(components, [cls |-> cls, name |-> name])
                /\ used_names' = used_names \cup {name}
                /\ cmp_call' = [op |-> "construct", cls |-> cls, name |-> name,
                                result |-> "ok"]
                /\ UNCHANGED id_counter
           ELSE /\ cmp_call' = [op |-> "construct", cls |-> cls, name |-> name,
                                result |-> "ValueError"]
                /\ UNCHANGED <<components, used_names, id_counter>>
        /\ UNCHANGED <<poolVars, obsVars, drvVars, calVars, runVars, concVars, proto,
                       build_call, execVars, readerVars, acqVars, lateVars>>

InitNames ==
    /\ PoolInit
    /\ motorStore = <<>>
    /\ DriversInit
    /\ ToolInit
    /\ NoRun

NextNames == Construct

SpecNames == InitNames /\ [][NextNames]_vars

----------------------------------------------------------------------------
(* SpecAcquire: __enter__ against an operating system whose answer to an open
   may differ from one attempt to the next *)

\* answers of serial.Serial(port) to a first and a second attempt
OsAnswers == {<<a, b>> : a, b \in BOOLEAN}

\* an open that tries again after a failure
connect_port_Retrying(answers) == \E i \in 1..Len(answers) : answers[i]

\* FreeStepController.connect_port -> SerialManager.open_port: serial.Serial is
\* called once, SerialException gives False
connect_port(answers) == answers[1]

AcquireEnter ==
    \E p \in Pumps, answers \in OsAnswers :
        /\ ~inside[p]
        /\ IF serial_port(p) \in DOMAIN shared_controllers THEN TRUE
           ELSE nextCtl < MaxControllers
        /\ IF serial_port(p) \in DOMAIN port_users
           THEN Len(port_users[serial_port(p)]) < MaxUsers
           ELSE TRUE
        /\ EnterBody(p, connect_port(answers))
        /\ os_answers' = IF serial_port(p) \in DOMAIN shared_controllers THEN <<>>
                         ELSE answers
        /\ UNCHANGED <<drvVars, calVars, runVars, concVars, proto, build_call, execVars,
                       readerVars, namesVars, lateVars>>

NextAcquire == AcquireEnter \/ Exit

SpecAcquire == Init /\ [][NextAcquire]_vars

----------------------------------------------------------------------------
(* SpecTube: construction of a Tube (components.py) from its string arguments *)

\* every variable but the ones of lateVars
EarlierVars == <<poolVars, obsVars, drvVars, calVars, runVars, concVars, proto, build_call,
                 execVars, readerVars, namesVars, acqVars>>

TubeMagnitudes == {1, 2, 9, 10}
TubeUnits == {"mm", "cm"}

\* an argument such as "10 mm"
TubeQuantities == [magnitude : TubeMagnitudes, unit : TubeUnits]
TubeLengths == {[magnitude |-> 5, unit |-> "mm"], [magnitude |-> 100, unit |-> "mm"]}

RECURSIVE Digits(_)
Digits(n) == IF n < 10 THEN <<n>> ELSE Append(Digits(n \div 10), n % 10)

\* the code points of the argument's text: digits, a space, the unit
text(q) ==
    LET d == Digits(q.magnitude)
    IN  [i \in 1..Len(d) |-> 48 + d[i]]
        \o <<32>>
        \o (IF q.unit = "mm" THEN <<109, 109>> ELSE <<99, 109>>)

\* Python's a <= b on two str objects: code point by code point, a proper prefix
\* is smaller
RECURSIVE str_le(_, _)
str_le(a, b) ==
    IF a = <<>> THEN TRUE
    ELSE IF b = <<>> THEN FALSE
    ELSE IF Head(a) # Head(b) THEN Head(a) < Head(b)
    ELSE str_le(Tail(a), Tail(b))

\* ureg.parse_expression: the length in mm
parse_expression(q) == Rat(q.magnitude * (IF q.unit = "cm" THEN 10 ELSE 1), 1)

\* Tube.__init__(length, inner_diameter, outer_diameter): the diameters and the
\* length are compared as they were passed
ConstructTube ==
    \E length \in TubeLengths, inner_diameter \in TubeQuantities,
       outer_diameter \in TubeQuantities :
        /\ tube_call' =
               [op |-> "Tube", length |-> length, inner |-> inner_diameter,
                outer |-> outer_diameter,
                result |-> IF str_le(text(outer_diameter), text(inner_diameter))
                           THEN "ValueError" ELSE "ok",
                warned |-> /\ ~str_le(text(outer_diameter), text(inner_diameter))
                           /\ \/ str_le(text(length), text(outer_diameter))
                              \/ str_le(text(length), text(inner_diameter))]
        /\ UNCHANGED <<EarlierVars, assocVars, sensorVars>>

InitTube ==
    /\ PoolInit
    /\ motorStore = <<>>
    /\ DriversInit
    /\ ToolInit
    /\ NoRun

NextTube == ConstructTube

SpecTube == InitTube /\ [][NextTube]_vars

----------------------------------------------------------------------------
(* SpecAssoc: the calibration tool's motor-MCU associations.  The tool keeps the
   MCU profiles it loaded in three places (the association dropdown, the edit
   dropdown, self.selected_mcu) and writes one of them back with update_mcu *)

AssocMotors == <<NewMotor("m1"), NewMotor("m2")>>

\* the pins the operator types
AssocPins == {[step |-> 6, dir |-> 7]}

\* ProfileManager.update_mcu: replace the entry with the same uniqueID, else append
update_mcu(list, rec) ==
    IF FindByID(list, rec.uniqueID) # NoneProfile THEN ReplaceByID(list, rec)
    ELSE Append(list, rec)

\* "Update or add the motor to the MCU", on the profile the handler holds
with_motor_pins(mcu, id, pins) ==
    LET entry == [uniqueID |-> id, step |-> pins.step, dir |-> pins.dir]
    IN  IF FindByID(mcu.motors, id) # NoneProfile
        THEN [mcu EXCEPT !.motors = ReplaceByID(@, entry)]
        ELSE [mcu EXCEPT !.motors = Append(@, entry)]

\* the stored MCU profiles that list the motor, in order
RECURSIVE mcus_with_motor(_, _)
mcus_with_motor(list, id) ==
    IF list = <<>> THEN <<>>
    ELSE IF FindByID(Head(list).motors, id) # NoneProfile
         THEN <<Head(list)>> \o mcus_with_motor(Tail(list), id)
    ELSE mcus_with_motor(Tail(list), id)

\* JupyterCalibrationTool.find_mcu_for_motor
find_mcu_for_motor(list, id, port) ==
    IF port = "None" \/ mcus_with_motor(list, id) = <<>> THEN NoneProfile
    ELSE Head(mcus_with_motor(list, id))

OutsideAssoc ==
    UNCHANGED <<port_users, shared_controllers, open_ports, nextCtl, controller, mcu_profile,
                motor_profile, port_initialized, last_rate, rate, inside, motorStore,
                obsVars, drvVars, w_first, w_second, w_named, w_diameter, tool_port,
                fitted, cal_call, runVars, concVars, proto, build_call, execVars,
                readerVars, namesVars, acqVars, tubeVars, sensorVars>>

\* JupyterCalibrationTool.add_mcu: ProfileManager.add_mcu, then refresh_mcus
AddMcu ==
    /\ FindByID(mcuStore, "mcuB") = NoneProfile
    /\ mcuStore' = Append(mcuStore, [uniqueID |-> "mcuB", motors |-> <<>>])
    /\ associate_mcu_options' = mcuStore'
    /\ assoc_call' = [op |-> "add_mcu", mcu |-> "mcuB", motor |-> "None"]
    /\ UNCHANGED <<selected_motor, selected_mcu, edit_motor_mcu_options, current_motor_id>>
    /\ OutsideAssoc

\* JupyterCalibrationTool.refresh_mcus
RefreshMcus ==
    /\ associate_mcu_options' = mcuStore
    /\ assoc_call' = [op |-> "refresh_mcus", mcu |-> "None", motor |-> "None"]
    /\ UNCHANGED <<mcuStore, selected_motor, selected_mcu, edit_motor_mcu_options,
                   current_motor_id>>
    /\ OutsideAssoc

\* JupyterCalibrationTool.edit_motor
EditMotor ==
    \E motor \in Range(motorStore) :
        /\ current_motor_id' = motor.uniqueID
        /\ edit_motor_mcu_options' = mcus_with_motor(mcuStore, motor.uniqueID)
        /\ assoc_call' = [op |-> "edit_motor", mcu |-> "None", motor |-> motor.uniqueID]
        /\ UNCHANGED <<mcuStore, selected_motor, selected_mcu, associate_mcu_options>>
        /\ OutsideAssoc

\* JupyterCalibrationTool.calibration_motor_changed
CalibrationMotorChanged ==
    \E motor \in Range(motorStore) :
        /\ selected_motor' = motor
        /\ selected_mcu' = find_mcu_for_motor(mcuStore, motor.uniqueID, tool_port)
        /\ assoc_call' = [op |-> "calibration_motor_changed", mcu |-> "None",
                          motor |-> motor.uniqueID]
        /\ UNCHANGED <<mcuStore, associate_mcu_options, edit_motor_mcu_options,
                       current_motor_id>>
        /\ OutsideAssoc

\* JupyterCalibrationTool.associate_motor_with_mcu with a motor and the k-th MCU of
\* the dropdown selected
AssociateMotorWithMcu ==
    \E motor \in Range(motorStore), k \in 1..Len(associate_mcu_options),
       pins \in AssocPins :
        LET held == with_motor_pins(associate_mcu_options[k], motor.uniqueID, pins)
        IN  /\ associate_mcu_options' = [associate_mcu_options EXCEPT ![k] = held]
            /\ mcuStore' = update_mcu(mcuStore, held)
            /\ edit_motor_mcu_options' =
                   IF current_motor_id = motor.uniqueID
                   THEN mcus_with_motor(mcuStore', motor.uniqueID)
                   ELSE edit_motor_mcu_options
            /\ assoc_call' = [op |-> "associate_motor_with_mcu", mcu |-> held.uniqueID,
                              motor |-> motor.uniqueID]
            /\ UNCHANGED <<selected_motor, selected_mcu, current_motor_id>>
            /\ OutsideAssoc

\* JupyterCalibrationTool.configure_pins
ConfigurePins ==
    \E pins \in AssocPins :
        /\ tool_port # "None"
        /\ Truthy(selected_mcu)
        /\ Truthy(selected_motor)
        /\ selected_mcu' = with_motor_pins(selected_mcu, selected_motor.uniqueID, pins)
        /\ mcuStore' = update_mcu(mcuStore, selected_mcu')
        /\ assoc_call' = [op |-> "configure_pins", mcu |-> selected_mcu.uniqueID,
                          motor |-> selected_motor.uniqueID]
        /\ UNCHANGED <<selected_motor, associate_mcu_options, edit_motor_mcu_options,
                       current_motor_id>>
        /\ OutsideAssoc

\* JupyterCalibrationTool.update_motor_pins with the k-th MCU of the edit dropdown
\* selected
UpdateMotorPins ==
    \E k \in 1..Len(edit_motor_mcu_options), pins \in AssocPins :
        LET held == with_motor_pins(edit_motor_mcu_options[k], current_motor_id, pins)
        IN  /\ current_motor_id # "None"
            /\ FindByID(edit_motor_mcu_options[k].motors, current_motor_id) # NoneProfile
            /\ edit_motor_mcu_options' = [edit_motor_mcu_options EXCEPT ![k] = held]
            /\ mcuStore' = update_mcu(mcuStore, held)
            /\ assoc_call' = [op |-> "update_motor_pins", mcu |-> held.uniqueID,
                              motor |-> current_motor_id]
            /\ UNCHANGED <<selected_motor, selected_mcu, associate_mcu_options,
                           current_motor_id>>
            /\ OutsideAssoc

InitAssoc ==
    /\ PoolInit
    /\ motorStore = AssocMotors
    /\ DriversInit
    /\ ToolInit
    /\ NoRun

NextAssoc ==
    \/ ConnectTool \/ AddMcu \/ RefreshMcus \/ EditMotor \/ CalibrationMotorChanged
    \/ AssociateMotorWithMcu \/ ConfigurePins \/ UpdateMotorPins

SpecAssoc == InitAssoc /\ [][NextAssoc]_vars

----------------------------------------------------------------------------
(* SpecCmd: run_basic_command and run_timed_command of the controller for a
   motor profile that calculate_calibration has fitted *)

\* syringe inner diameters (mm) recorded by the fit: below, at and above the
\* reference diameter of send_command
CmdDiameters == {<<4, 1>>, <<8, 1>>, <<15, 1>>}

\* the pairs of trials calculate_calibration accepts and fits without an error
FitTrials ==
    {t \in FirstTrials \X SecondTrials :
        /\ MeasurementsValid(t[1].measurement, t[2].measurement)
        /\ t[1].duration # RZero /\ t[2].duration # RZero
        /\ t[1].freq # t[2].freq}

FittedProfiles ==
    {CalibratedProfile(NewMotor("m1"), t[1], t[2], d) : t \in FitTrials, d \in CmdDiameters}

\* target flows for a fitted motor: the ends of its band, the middle of the band,
\* half the lower end and one above the upper end
CmdUPS(motor) ==
    {motor.minUPS, motor.maxUPS, RDiv(RAdd(motor.minUPS, motor.maxUPS), <<2, 1>>),
     RDiv(motor.minUPS, <<2, 1>>), RAdd(motor.maxUPS, <<1, 1>>)}

CmdPort == "COM3"
CmdTimeValue == <<5, 1>>

\* FreeStepController.run_timed_command(port, motor_profile, mcu_profile, ups,
\* time_value, time_unit, direction): the commands written
run_timed_command(opened, port, motor, mcu, ups, time_value, time_unit, direction) ==
    IF ~motor.calibrated THEN <<>>
    ELSE IF motor_config(mcu, motor) = NoneProfile THEN <<>>
    ELSE IF convert_ups_to_freq(motor, ups) = None THEN <<>>
    ELSE send_command(opened,
             with_syringe_diameter(
                 TimedCmd(port, motor_config(mcu, motor).step, motor_config(mcu, motor).dir,
                          convert_ups_to_freq(motor, ups), direction, time_value, time_unit),
                 motor))

OutsideCmd ==
    UNCHANGED <<poolVars, lastCall, drvVars, w_first, w_second, w_named, w_diameter,
                selected_motor, tool_port, fitted, runVars, concVars, extVars>>

\* controller.run_basic_command(port, motor, mcu, ups, direction) on the open port
RunBasicCommand ==
    \E motor \in Range(motorStore), direction \in {"forward", "backward"} :
        \E ups \in CmdUPS(motor) :
            /\ lastSent' = run_basic_command({CmdPort}, CmdPort, motor, McuA, ups, direction)
            /\ cal_call' = [op |-> "run_basic_command", motor |-> motor, ups |-> ups,
                            direction |-> direction]
            /\ OutsideCmd

\* controller.run_timed_command(port, motor, mcu, ups, 5, "s", direction) on the open port
RunTimedCommand ==
    \E motor \in Range(motorStore), direction \in {"forward", "backward"} :
        \E ups \in CmdUPS(motor) :
            /\ lastSent' = run_timed_command({CmdPort}, CmdPort, motor, McuA, ups,
                                              CmdTimeValue, "s", direction)
            /\ cal_call' = [op |-> "run_timed_command", motor |-> motor, ups |-> ups,
                            direction |-> direction]
            /\ OutsideCmd

InitCmd ==
    /\ PoolInit
    /\ motorStore \in {<<mp>> : mp \in FittedProfiles}
    /\ DriversInit
    /\ ToolInit
    /\ NoRun

NextCmd == RunBasicCommand \/ RunTimedCommand

SpecCmd == InitCmd /\ [][NextCmd]_vars

----------------------------------------------------------------------------
(* SpecRace: close_port against the _read_responses threads, one evaluation of
   the thread per step *)

\* ports whose handle close_port has closed and not yet deleted from open_ports
ClosingPorts == {port \in DOMAIN sm_open_ports : ~sm_is_open[sm_open_ports[port]]}

\* the port that is opened and closed repeatedly
RacePorts == {"COM3"}

\* SerialManager.open_port called by the main thread (between calls of close_port)
RaceOpenPort == ClosingPorts = {} /\ OpenPort /\ sm_call'.port \in RacePorts

\* close_port up to "self.open_ports[port_name].close()"
ClosePortClose ==
    \E port \in RacePorts :
        /\ ClosingPorts = {}
        /\ IF port \in DOMAIN sm_open_ports
           THEN /\ sm_is_open' = [sm_is_open EXCEPT ![sm_open_ports[port]] = FALSE]
                /\ sm_call' = [op |-> "close_port", port |-> port, result |-> "close()"]
           ELSE /\ sm_call' = [op |-> "close_port", port |-> port,
                               result |-> "returns False"]
                /\ UNCHANGED sm_is_open
        /\ UNCHANGED <<sm_open_ports, sm_readers>>
        /\ OutsideReader

\* close_port from "del self.open_ports[port_name]" to "return True"
ClosePortDel ==
    \E port \in ClosingPorts :
        /\ sm_open_ports' = Without(sm_open_ports, port)
        /\ sm_call' = [op |-> "close_port", port |-> port, result |-> "closed"]
        /\ UNCHANGED <<sm_is_open, sm_readers>>
        /\ OutsideReader

\* close_port has returned for the handle: it is closed and open_ports no longer
\* holds it
CloseReturned(handle) ==
    /\ ~sm_is_open[handle]
    /\ \A port \in DOMAIN sm_open_ports : sm_open_ports[port] # handle

\* one evaluation of a _read_responses thread:
\*   start:     port = self.open_ports[port_name]          (outside the try)
\*   check:     port_name in self.open_ports                (loop condition, left operand)
\*   subscript: self.open_ports[port_name].is_open          (loop condition, right operand)
\*   body:      port.in_waiting / readline() inside try; except Exception: break
\* pc ends as "returned" (loop left), "broke" (exception caught) or "KeyError"
\* (raised outside the try, the thread dies with it)
ReaderEval ==
    \E t \in 1..Len(sm_readers) :
        LET r == sm_readers[t]
            known == r.port \in DOMAIN sm_open_ports
            next ==
                CASE r.pc = "start" ->
                         IF known
                         THEN [r EXCEPT !.handle = sm_open_ports[r.port], !.pc = "check"]
                         ELSE [r EXCEPT !.pc = "KeyError"]
                  [] r.pc = "check" ->
                         IF known THEN [r EXCEPT !.pc = "subscript"]
                         ELSE [r EXCEPT !.pc = "returned"]
                  [] r.pc = "subscript" ->
                         IF ~known THEN [r EXCEPT !.pc = "KeyError"]
                         ELSE IF sm_is_open[sm_open_ports[r.port]]
                              THEN [r EXCEPT !.pc = "body"]
                         ELSE [r EXCEPT !.pc = "returned"]
                  [] r.pc = "body" ->
                         IF sm_is_open[r.handle] THEN [r EXCEPT !.pc = "check"]
                         ELSE [r EXCEPT !.pc = "broke"]
            result == IF r.pc = "body" /\ CloseReturned(r.handle)
                      THEN "read after close_port returned"
                      ELSE next.pc
        IN  /\ r.pc \in {"start", "check", "subscript", "body"}
            /\ sm_readers' = [sm_readers EXCEPT ![t] = next]
            /\ sm_call' = [op |-> "_read_responses", port |-> r.port, result |-> result]
            /\ UNCHANGED <<sm_open_ports, sm_is_open>>
            /\ OutsideReader

NextRace == RaceOpenPort \/ ClosePortClose \/ ClosePortDel \/ ReaderEval

SpecRace == InitReader /\ [][NextRace]_vars

----------------------------------------------------------------------------
(* SpecSensor: one Sensor, the async generator update() and the task that sets
   the sensor's rate while the generator is suspended *)

MaxReadings == 5

\* data collection rates in Hz; 0 Hz: the sensor is off
SensorRates == {0, 1, 2, 10}

OutsideSensor == UNCHANGED <<EarlierVars, tubeVars, assocVars>>

\* "while ureg.parse_expression(self.rate).to_base_units().magnitude != 0:
\*      yield self.read()": the generator yields a reading or finishes
loop_head ==
    IF sensor_rate # 0
    THEN /\ sensor_pc' = "yield"
         /\ sensor_readings' = sensor_readings + 1
         /\ sensor_call' = [op |-> "yield", rate |-> sensor_rate]
    ELSE /\ sensor_pc' = "finished"
         /\ sensor_readings' = sensor_readings
         /\ sensor_call' = [op |-> "StopAsyncIteration", rate |-> sensor_rate]

\* the executor sets the sensor's rate (another task, while update() is suspended)
SetSensorRate ==
    \E r \in SensorRates :
        /\ r # sensor_rate
        /\ sensor_rate' = r
        /\ sensor_call' = [op |-> "set rate", rate |-> r]
        /\ UNCHANGED <<sensor_pc, sensor_readings>>
        /\ OutsideSensor

\* sensor.update() is called and its first value is asked for
StartUpdate ==
    /\ sensor_pc \in {"none", "finished", "ZeroDivisionError"}
    /\ sensor_rate # 0 => sensor_readings < MaxReadings
    /\ loop_head
    /\ UNCHANGED sensor_rate
    /\ OutsideSensor

\* the next value is asked for: the generator resumes after the yield and
\* evaluates asyncio.sleep(1 / magnitude of self.rate)
ResumeAfterYield ==
    /\ sensor_pc = "yield"
    /\ IF sensor_rate = 0
       THEN /\ sensor_pc' = "ZeroDivisionError"
            /\ sensor_call' = [op |-> "1 / rate", rate |-> sensor_rate]
       ELSE /\ sensor_pc' = "sleep"
            /\ sensor_call' = [op |-> "sleep", rate |-> sensor_rate]
    /\ UNCHANGED <<sensor_rate, sensor_readings>>
    /\ OutsideSensor

\* the sleep is over: the loop condition is evaluated again
SleepOver ==
    /\ sensor_pc = "sleep"
    /\ sensor_rate # 0 => sensor_readings < MaxReadings
    /\ loop_head
    /\ UNCHANGED sensor_rate
    /\ OutsideSensor

InitSensor ==
    /\ PoolInit
    /\ motorStore = <<>>
    /\ DriversInit
    /\ ToolInit
    /\ NoRun

NextSensor == SetSensorRate \/ StartUpdate \/ ResumeAfterYield \/ SleepOver

SpecSensor == InitSensor /\ [][NextSensor]_vars

----------------------------------------------------------------------------
(* Properties of the shared serial connection (Spec) *)

PortOpenIn(c, port) == c \in DOMAIN open_ports /\ port \in open_ports[c]
OpenHandles(port) == {c \in DOMAIN open_ports : port \in open_ports[c]}
InsideOn(port) == {p \in Pumps : inside[p] /\ serial_port(p) = port}

\* C1: pumps that are inside their with-block on the same port hold the same
\* controller, which is the registered one; the port is open exactly once, and it
\* stays open for a pump that is still inside when another pump releases it.
C1_ReferenceCounting ==
    \A p \in Pumps :
        inside[p] =>
            LET port == serial_port(p) IN
            /\ port \in DOMAIN shared_controllers
            /\ shared_controllers[port] = controller[p]
            /\ PortOpenIn(controller[p], port)
            /\ Cardinality(OpenHandles(port)) = 1
            /\ \A q \in InsideOn(port) : controller[q] = controller[p]

\* one of two pumps sharing COM3 has just released it and the other is still inside
C1_Witness ==
    /\ lastCall.op = "exit"
    /\ lastCall.pump = "fp1"
    /\ ~inside["fp1"]
    /\ inside["fp2"]
    /\ PortOpenIn(controller["fp2"], "COM3")

\* C2: a port is registered and open exactly while some pump inside its with-block
\* references it.
C2_ConnectionLifetime ==
    \A port \in Ports :
        (port \in DOMAIN shared_controllers \/ OpenHandles(port) # {})
            <=> InsideOn(port) # {}

\* C10: an _update that applies a new non-zero rate transmits a run command whose
\* direction is "backward" for a negative rate and "forward" for a positive one,
\* with a non-negative frequency.
C10_DirectionTransmitted ==
    (/\ lastCall.op = "update"
     /\ lastCall.result # "RuntimeError: not properly initialized"
     /\ rate[lastCall.pump] # lastCall.prev
     /\ ~RLe(RAbs(rate[lastCall.pump]), StopThreshold))
    => \E i \in 1..Len(lastSent) :
           /\ lastSent[i].type = "basic"
           /\ lastSent[i].direction =
                 (IF RLt(rate[lastCall.pump], RZero) THEN "backward" ELSE "forward")
           /\ RLe(RZero, lastSent[i].freq)
\* C11: an _update that applies a new rate inside the calibrated band transmits a run
\* command whose frequency is the converted frequency divided by
\* (calibratedDiameter / currentDiameter)^2.
C11_DiameterRatioApplied ==
    (/\ lastCall.op = "update"
     /\ lastCall.result # "RuntimeError: not properly initialized"
     /\ rate[lastCall.pump] # lastCall.prev
     /\ convert_ups_to_freq(motor_profile[lastCall.pump], RAbs(rate[lastCall.pump])) # None)
    => \E i \in 1..Len(lastSent) :
           /\ lastSent[i].type \in {"basic", "timed"}
           /\ lastSent[i].freq =
                 RDiv(convert_ups_to_freq(motor_profile[lastCall.pump],
                                          RAbs(rate[lastCall.pump])),
                      diameter_ratio(lastCall.pump))

----------------------------------------------------------------------------
(* Properties of the calibration arithmetic (SpecCal) *)

\* the profile of the motor on the calibration rig as motors.json holds it
StoredMotor == FindByID(motorStore, "m1")

\* "ups" of a trial: (measurement / duration) * 60, mL/min from mL and seconds
ObservedFlow(t) == RMul(RDiv(t.measurement, t.duration), <<60, 1>>)

\* C6: the conversion of a target flow yields a frequency exactly when
\* minUPS <= flow < maxUPS, and then the frequency is (flow - intercept) / slope.
C6_HalfOpenBand ==
    (/\ cal_call.op = "run_test"
     /\ cal_call.result \in {"send", "return: freq is None",
                             "return: speed too low", "return: speed too high"})
    => LET mp == cal_call.motor
           ups == cal_call.ups
       IN  /\ (cal_call.freq # None) <=> (RLe(mp.minUPS, ups) /\ RLt(ups, mp.maxUPS))
           /\ cal_call.freq # None =>
                 cal_call.freq = RDiv(RSub(ups, mp.UPSIntercept), mp.UPSSlope)

\* C7 as stated: after a fit from two trials of different frequencies, converting
\* the observed flow of each trial returns that trial's frequency.
C7_RoundTrip_AsStated ==
    (fitted /\ w_first.freq # w_second.freq)
    => \A t \in {w_first, w_second} :
           convert_ups_to_freq(StoredMotor, ObservedFlow(t)) = t.freq

\* C7: after a fit from two trials of different frequencies, converting the observed
\* flow of a trial returns that trial's frequency when the flow lies strictly between
\* minUPS and maxUPS, and is rejected otherwise.
C7_RoundTrip ==
    (fitted /\ w_first.freq # w_second.freq)
    => \A t \in {w_first, w_second} :
           convert_ups_to_freq(StoredMotor, ObservedFlow(t)) =
               (IF /\ RLt(StoredMotor.minUPS, ObservedFlow(t))
                   /\ RLt(ObservedFlow(t), StoredMotor.maxUPS)
                THEN t.freq
                ELSE None)

\* a fit has been stored and the flow of the first trial converts back to 100 Hz
C7_Witness ==
    /\ fitted
    /\ cal_call.op = "calculate"
    /\ cal_call.result = "ok"
    /\ w_first.freq = <<100, 1>>
    /\ RLt(StoredMotor.minUPS, ObservedFlow(w_first))
    /\ RLt(ObservedFlow(w_first), StoredMotor.maxUPS)
    /\ convert_ups_to_freq(StoredMotor, ObservedFlow(w_first)) = <<100, 1>>

\* C8 as stated: a successful fit stores slope = (flow2 - flow1) / (freq2 - freq1),
\* intercept = flow1 - slope * freq1, minUPS = intercept raised to 5e-6 when below
\* it, and maxUPS = slope * 1000 + intercept, flow_i being volume_i / duration_i.
C8_FitFormulas_AsStated ==
    (cal_call.op = "calculate" /\ cal_call.result = "ok")
    => LET flow1 == RDiv(w_first.measurement, w_first.duration)
           flow2 == RDiv(w_second.measurement, w_second.duration)
           slope == RDiv(RSub(flow2, flow1), RSub(w_second.freq, w_first.freq))
           intercept == RSub(flow1, RMul(slope, w_first.freq))
           floor == Rat(5, 1000000)
       IN  /\ StoredMotor.calibrated
           /\ StoredMotor.UPSSlope = slope
           /\ StoredMotor.UPSIntercept = intercept
           /\ StoredMotor.minUPS = (IF RLt(intercept, floor) THEN floor ELSE intercept)
           /\ StoredMotor.maxUPS = RAdd(RMul(slope, <<1000, 1>>), intercept)

\* C8: a successful fit stores slope = (flow2 - flow1) / (freq2 - freq1),
\* intercept = flow1 - slope * freq1, minUPS = intercept raised to 5e-6 when below
\* it, and maxUPS = slope * 1000 + intercept, flow_i being
\* (volume_i / duration_i) * 60 with the duration in seconds.
C8_FitFormulas ==
    (cal_call.op = "calculate" /\ cal_call.result = "ok")
    => LET flow1 == RMul(RDiv(w_first.measurement, w_first.duration), <<60, 1>>)
           flow2 == RMul(RDiv(w_second.measurement, w_second.duration), <<60, 1>>)
           slope == RDiv(RSub(flow2, flow1), RSub(w_second.freq, w_first.freq))
           intercept == RSub(flow1, RMul(slope, w_first.freq))
           floor == Rat(5, 1000000)
       IN  /\ StoredMotor.calibrated
           /\ StoredMotor.UPSSlope = slope
           /\ StoredMotor.UPSIntercept = intercept
           /\ StoredMotor.minUPS = (IF RLt(intercept, floor) THEN floor ELSE intercept)
           /\ StoredMotor.maxUPS = RAdd(RMul(slope, <<1000, 1>>), intercept)

\* a fit whose intercept lies below the floor has just been stored
C8_Witness ==
    /\ cal_call.op = "calculate"
    /\ cal_call.result = "ok"
    /\ StoredMotor.minUPS = Rat(5, 1000000)
    /\ RLt(StoredMotor.UPSIntercept, StoredMotor.minUPS)
    /\ RLt(RZero, StoredMotor.UPSSlope)

----------------------------------------------------------------------------
(* Properties of a protocol run (SpecRun) *)

\* the entry's rate lies inside the calibrated band of the pump's motor
RateInBand ==
    /\ Truthy(motor_profile[run_pump])
    /\ motor_profile[run_pump].calibrated
    /\ RLt(motor_profile[run_pump].minUPS, RAbs(run_rate))
    /\ RLt(RAbs(run_rate), motor_profile[run_pump].maxUPS)

\* C4: when the run of a single entry with a rate inside the band is over, the link
\* has seen exactly one command at the window start, a basic or timed one, and
\* exactly one at the window end, a stop.
C4_SingleWindowTrace ==
    (run_pc \in {"completed", "aborted"} /\ RateInBand)
    => LET AtStart(e) == e.phase = "start"
           AtEnd(e) == e.phase = "end"
           start == SelectSeq(wire, AtStart)
           end == SelectSeq(wire, AtEnd)
       IN  /\ Len(start) = 1
           /\ start[1].cmd.type \in {"basic", "timed"}
           /\ Len(end) = 1
           /\ end[1].cmd.type = "stop"
----------------------------------------------------------------------------
(* Properties of the writes on a shared port (SpecWrite) *)

\* the pumps with a write in flight: the first piece of a line is out, the second
\* is not
InFlight == {p \in Pumps : pending[p] # <<>> /\ Head(pending[p]).part = 2}

----------------------------------------------------------------------------
(* Properties of the diameter compensation of a transmitted command (SpecCal) *)

\* run_test has just written a timed command for a motor with a recorded diameter
TestSent ==
    /\ cal_call.op = "run_test"
    /\ cal_call.result = "send"
    /\ lastSent # <<>>
    /\ cal_call.motor.syringeInfo # <<>>

\* the ratio the transmitted frequency is divided by: (syringe diameter / 8 mm)^2
SentRatio ==
    RMul(RDiv(cal_call.motor.syringeInfo[1], <<8, 1>>),
         RDiv(cal_call.motor.syringeInfo[1], <<8, 1>>))

\* C12 as stated: the converted frequency divided by the ratio is the frequency that
\* converting target * ratio gives.
C12_Equivalence_AsStated ==
    (TestSent /\ convert_ups_to_freq(cal_call.motor, RMul(cal_call.ups, SentRatio)) # None)
    => RDiv(convert_ups_to_freq(cal_call.motor, cal_call.ups), SentRatio)
          = convert_ups_to_freq(cal_call.motor, RMul(cal_call.ups, SentRatio))

\* C12: the transmitted frequency is the converted frequency divided by the ratio;
\* when target / ratio is inside the band, that is the frequency converting
\* target / ratio gives exactly when the intercept is zero or the ratio is one.
C12_Equivalence ==
    TestSent
    => /\ lastSent[1].freq = RDiv(convert_ups_to_freq(cal_call.motor, cal_call.ups),
                                  SentRatio)
       /\ convert_ups_to_freq(cal_call.motor, RDiv(cal_call.ups, SentRatio)) # None
          => ((lastSent[1].freq
                  = convert_ups_to_freq(cal_call.motor, RDiv(cal_call.ups, SentRatio)))
              <=> (cal_call.motor.UPSIntercept = RZero \/ SentRatio = <<1, 1>>))

\* a command went out for a 15 mm syringe and a zero intercept, and its frequency is
\* the one converting target / ratio gives
C12_Witness ==
    /\ TestSent
    /\ cal_call.motor.syringeInfo[1] = <<15, 1>>
    /\ cal_call.motor.UPSIntercept = RZero
    /\ convert_ups_to_freq(cal_call.motor, RDiv(cal_call.ups, SentRatio)) # None
    /\ lastSent[1].freq = convert_ups_to_freq(cal_call.motor, RDiv(cal_call.ups, SentRatio))
----------------------------------------------------------------------------
(* Properties of the protocol build (SpecBuild) *)

\* the configs name two overlapping windows on one pump
Conflicting(configs) ==
    /\ InputsValid(configs)
    /\ PumpVolumesValid(configs)
    /\ \E i, j \in 1..Len(configs) :
          i # j /\ Overlap(EntryOf(configs[i]), EntryOf(configs[j]))

\* C13: building a protocol from configs with two overlapping windows on one pump
\* fails with an error and leaves no entry of it in the protocol.
C13_ConflictRejected ==
    (build_call.op # "init" /\ Conflicting(build_call.configs))
    => /\ build_call.result = "raises ScheduleConflictError"
       /\ proto = <<>>

-----------------------------------------------------------------------------
(* Properties of an execution (SpecExec) *)

Happened(c, ev) == \E i \in 1..Len(ex_log[c]) : ex_log[c][i] = ev

\* the last thing written on c's connection before its release is a stop
StopBeforeRelease(c) ==
    \E j \in 2..Len(ex_log[c]) : ex_log[c][j] = "release" /\ ex_log[c][j - 1] = "stop"

FinalStop(c) ==
    \E i \in 1..Len(ex_log[c]) :
        /\ ex_log[c][i] = "revert"
        /\ \E j \in (i + 1)..Len(ex_log[c]) :
               /\ ex_log[c][j] = "stop"
               /\ \A k \in (i + 1)..(j - 1) : ex_log[c][k] = "exit"

RunMoves == {<<"Idle", "Running">>, <<"Running", "Completed">>, <<"Running", "Aborted">>}

-----------------------------------------------------------------------------
(* Properties of the reader threads (SpecReader) *)

\* C16: every serial handle opened has started exactly one reader thread (an
\* open_port of an already open port starts none), and after any sequence of open_port and close_port calls at
\* most one reader thread is alive for a port.
C16_ReaderLifecycle ==
    /\ Len(sm_readers) = Len(sm_is_open)
    /\ \A port \in ManagedPorts : Cardinality(LiveReaders(port)) <= 1

-----------------------------------------------------------------------------
(* Properties of failed sends (SpecSend) *)

\* the last call was an _update that had a command to send: the pump is
\* initialized and the rate differs from the one before
UpdateHadToSend ==
    /\ lastCall.op = "update"
    /\ lastCall.result # "RuntimeError: not properly initialized"
    /\ rate[lastCall.pump] # lastCall.prev

\* C17: a send on a connection without references (the port is not open in the
\* pump's controller, every pump has released it) ends in an assertion failure.
C17_SendWithoutReferenceFatal ==
    (/\ UpdateHadToSend
     /\ ~inside[lastCall.pump]
     /\ ~PortOpenIn(controller[lastCall.pump], serial_port(lastCall.pump)))
    => lastCall.result = "AssertionError"

\* a command was due and nothing reached the wire of a pump whose motor is wired
WriteFailed ==
    /\ UpdateHadToSend
    /\ motor_config(mcu_profile[lastCall.pump], motor_profile[lastCall.pump]) # NoneProfile
    /\ lastSent = <<>>

\* the requested rate is outside the calibrated band of the pump's motor
OutOfBand ==
    /\ UpdateHadToSend
    /\ ~RLe(RAbs(rate[lastCall.pump]), StopThreshold)
    /\ convert_ups_to_freq(motor_profile[lastCall.pump], RAbs(rate[lastCall.pump])) = None

\* C19: an _update whose serial write fails, or whose rate is outside the
\* calibrated band, raises to its caller instead of returning normally.
C19_FailurePropagates ==
    (WriteFailed \/ OutOfBand) => lastCall.result # "ok"

-----------------------------------------------------------------------------
(* Properties of component names (SpecNames) *)

\* C20: after any sequence of constructions, with given or generated names and
\* over all component classes, no two components share a name.
C20_NamesUnique ==
    \A i, j \in 1..Len(components) :
        i # j => components[i].name # components[j].name

-----------------------------------------------------------------------------
(* Properties of a failed open (SpecAcquire) *)

\* the last call was an __enter__ whose open of the port was refused
OpenRefused == lastCall.op = "enter" /\ os_answers # <<>> /\ ~os_answers[1]

\* C18: when the operating system refuses the open, __enter__ raises its
\* connection error at once: the pump is not inside, nothing is written, and the
\* port is not opened by a further attempt even if one would succeed.
C18_OpenFailureSurfaces ==
    OpenRefused =>
        /\ lastCall.result = "RuntimeError: Failed to connect"
        /\ ~inside[lastCall.pump]
        /\ ~PortOpenIn(controller[lastCall.pump], serial_port(lastCall.pump))
        /\ serial_port(lastCall.pump) \notin DOMAIN shared_controllers
        /\ lastSent = <<>>

C18_Witness ==
    /\ OpenRefused
    /\ os_answers = <<FALSE, TRUE>>
    /\ lastCall.result = "RuntimeError: Failed to connect"

-----------------------------------------------------------------------------
(* Properties of Tube construction (SpecTube) *)

\* C21: Tube construction fails exactly when the outer diameter, as a physical
\* length, is not strictly greater than the inner diameter.
C21_TubeDiameters ==
    tube_call.op = "Tube" =>
        (tube_call.result = "ValueError"
            <=> ~RLt(parse_expression(tube_call.inner), parse_expression(tube_call.outer)))

-----------------------------------------------------------------------------
(* Properties of the motor profile store during execution (Spec) *)

\* C22: no step of the execution path (__enter__, _update, __exit__) writes the
\* motor profile store.
C22_MotorStoreReadOnly == [][motorStore' = motorStore]_vars

-----------------------------------------------------------------------------
(* Properties of the motor-MCU associations (SpecAssoc) *)

\* the associations a stored list of MCU profiles holds: <<MCU uniqueID, entry>>
Associations(list) ==
    UNION {{<<list[i].uniqueID, list[i].motors[j]>> : j \in 1..Len(list[i].motors)} :
               i \in 1..Len(list)}

\* C23: every motor uniqueID appears in the motors list of at most one stored MCU
\* profile, and at most once in it.
C23_OneMcuPerMotor ==
    \A i1, i2 \in 1..Len(mcuStore) :
        \A j1 \in 1..Len(mcuStore[i1].motors), j2 \in 1..Len(mcuStore[i2].motors) :
            mcuStore[i1].motors[j1].uniqueID = mcuStore[i2].motors[j2].uniqueID
                => (i1 = i2 /\ j1 = j2)

PinOperations == {"associate_motor_with_mcu", "configure_pins", "update_motor_pins"}

\* the association the operation is about
Targeted(call, e) == e[1] = call.mcu /\ e[2].uniqueID = call.motor

\* C30: a pin operation on one motor of one MCU leaves every other association of
\* the persisted MCU store as it was, and adds none.
C30_OtherAssociationsKept ==
    [][assoc_call'.op \in PinOperations =>
          /\ \A e \in Associations(mcuStore) :
                 ~Targeted(assoc_call', e) => e \in Associations(mcuStore')
          /\ \A e \in Associations(mcuStore') :
                 ~Targeted(assoc_call', e) => e \in Associations(mcuStore)]_vars

----------------------------------------------------------------------------
(* Failed FreeStepPump.__enter__ (Spec) *)

\* port names that are open on any controller
OpenPortNames(ports) == UNION {ports[c] : c \in 1..Len(ports)}

\* C24: when FreeStepPump.__enter__ raises, _port_users, _shared_controllers
\* and the set of open ports are what they were before the call
C24_FailedEnterAtomic ==
    [][(lastCall'.op = "enter" /\ lastCall'.result # "ok")
        => /\ port_users' = port_users
           /\ shared_controllers' = shared_controllers
           /\ OpenPortNames(open_ports') = OpenPortNames(open_ports)]_vars

----------------------------------------------------------------------------
(* _last_rate and the commands that reach the device (SpecSend) *)

\* C25: _update advances _last_rate only when it has transmitted a command for
\* the new rate; a rate whose command was not written stays unrecorded
C25_LastRateIsSentRate ==
    [][(lastCall'.op = "update" /\ last_rate' # last_rate) => lastSent' # <<>>]_vars

----------------------------------------------------------------------------
(* Properties of the transmitted frequency (SpecCmd) *)

\* the controller has just written a basic or timed command
CmdSent ==
    /\ cal_call.op \in {"run_basic_command", "run_timed_command"}
    /\ lastSent # <<>>

\* C26: every frequency transmitted in a basic or timed command for a fitted motor
\* is at least 0 and below the 1000 Hz hardware ceiling
C26_FrequencyBelowCeiling ==
    CmdSent => /\ RLe(RZero, lastSent[1].freq)
               /\ RLt(lastSent[1].freq, <<HardwareCeilingHz, 1>>)

\* what the other command path writes for the inputs of the last call
OtherPathSent ==
    IF cal_call.op = "run_basic_command"
    THEN run_timed_command({CmdPort}, CmdPort, cal_call.motor, McuA, cal_call.ups,
                           CmdTimeValue, "s", cal_call.direction)
    ELSE run_basic_command({CmdPort}, CmdPort, cal_call.motor, McuA, cal_call.ups,
                           cal_call.direction)

\* C27: for the same motor profile, MCU profile, target flow and direction the
\* basic and the timed command carry the same frequency
C27_PathsAgree ==
    CmdSent => /\ OtherPathSent # <<>>
               /\ OtherPathSent[1].freq = lastSent[1].freq

----------------------------------------------------------------------------
(* Properties of closing a port under its reader thread (SpecRace) *)

\* C28: in every interleaving of close_port with _read_responses no reader
\* thread ends with an unhandled exception, and no reader reads from its handle
\* after close_port has returned
C28_CloseRaceFree ==
    /\ \A t \in 1..Len(sm_readers) : sm_readers[t].pc # "KeyError"
    /\ sm_call.op = "_read_responses"
          => sm_call.result # "read after close_port returned"

----------------------------------------------------------------------------
(* Properties of Sensor.update (SpecSensor) *)

\* C29: update() never divides by zero and yields no reading while the rate is
\* 0 Hz, also when the rate becomes 0 Hz while the generator is suspended
C29_NoZeroDivision ==
    /\ sensor_pc # "ZeroDivisionError"
    /\ sensor_call.op = "yield" => sensor_call.rate # 0


====
